---- MODULE Spec2Model ----
(***************************************************************************)
(* Size-constrained PDF/A conversion pipeline (server/routes.ts).          *)
(*                                                                         *)
(* Three state machines share this module:                                 *)
(*   - the page-range partitioner findPageRangesForSize, in its current    *)
(*     revision (estimate, grow, shrink) and its binary-search revision;   *)
(*   - convertToPdfAParallel, with one external engine process per chunk;  *)
(*   - the /api/convert handler with the session table, the progress       *)
(*     stream /api/progress/:sessionId and the purge timer.                *)
(* Each has its own specification; the variables of the machines a         *)
(* specification does not run stay at their idle values.                   *)
(***************************************************************************)
EXTENDS Integers, Sequences, FiniteSets, TLC

VARIABLES
    \* ---- findPageRangesForSize
    rRev,         \* which revision runs: "current" (477-544) or "binary" (43-97)
    rTotalPages,  \* getPageCount(convertedPdfPath)
    rFileSize,    \* fs.statSync(convertedPdfPath).size
    rProbe,       \* size of the probe extraction of every page range
    rPc,          \* "off", "start", "loop", "returned"
    rCurrentPage, \* currentPage
    rRanges,      \* ranges
    rProbeLog,    \* per emitted range: the number of probe extractions spent on it
    \* ---- convertToPdfAParallel
    pTotalPages,  \* getPageCount(inputPath)
    pPc,          \* "off", "count", "single", "extract", "convert", "merge",
                  \* "reconvert", "returned", "threw"
    pChunks,      \* chunks: the page range of every chunk
    pExtract,     \* per chunk, its qpdf extraction process: "running", "ok", "failed"
    pConvert,     \* per chunk, its gs conversion process: "idle", "running", "ok", "failed"
    pFiles,       \* the files of this call that exist in tmpDir
    pCompleted,   \* completed
    pProgress,    \* the calls onProgress(current, total) made so far
    pOutOfOrder,  \* some conversion completed after the conversion of a later chunk
    pMergeArgs,   \* the page list handed to the qpdf merge
    \* ---- /api/convert, progressStore, /api/progress/:sessionId
    req,          \* per session: the conversion request that creates it, if any
    sess,         \* per session: its progressStore entry, its /api/convert handler
                  \* and its directories
    cl,           \* per observer: its /api/progress response
    sweep,        \* the timer of cleanupOldFiles: whether the start-up sweep ran,
                  \* and the time since the last sweep
    \* ---- execQpdf
    qpdf,         \* a call of execQpdf: what the engine did, and what the call yields
    \* ---- verifyPdfA
    verify,       \* a call of verifyPdfA: the files, the path, and what the call yields
    \* ---- /api/convert of the revision that splits with splitToFitSize
    legacy        \* a request of one file: the document, the handler's position,
                  \* the session directory and the response

rangeVars == <<rRev, rTotalPages, rFileSize, rProbe, rPc, rCurrentPage, rRanges, rProbeLog>>

parVars == <<pTotalPages, pPc, pChunks, pExtract, pConvert, pFiles, pCompleted, pProgress,
             pOutOfOrder, pMergeArgs>>

pipeVars == <<req, sess, cl, sweep>>

toolVars == <<qpdf, verify, legacy>>

-----------------------------------------------------------------------------
(* Program constants *)

MAX_SIZE_BYTES == 9 * 1024 * 1024

MAX_GROW_PROBES == 10

NUM_WORKERS == 8

MIN_PAGES_FOR_PARALLEL == 16

SESSION_CLEANUP_DELAY == 60000

ONE_HOUR_MS == 60 * 60 * 1000

SWEEP_INTERVAL_MS == 10 * 60 * 1000

(* Bounds of the model *)

MaxPages == 4

NumSessions == 2

NumClients == 2

NumFiles == 3

TickMs == 30000

\* The step of time of the specifications with the sweeper.
QuantumMs == 600000

\* Retrievals of one session.
MaxDownloads == 2

-----------------------------------------------------------------------------
(* Helpers *)

Min(a, b) == IF a <= b THEN a ELSE b

Max(a, b) == IF a >= b THEN a ELSE b

Last(s) == s[Len(s)]

Range(f) == {f[x] : x \in DOMAIN f}

\* A variant of the sum that leaves out the last part.
RECURSIVE SumSizes_WithoutLast(_)
SumSizes_WithoutLast(parts) ==
    IF Len(parts) <= 1 THEN 0 ELSE parts[1].size + SumSizes_WithoutLast(Tail(parts))

\* partsDetail.reduce((acc, f) => acc + f.size, 0)
RECURSIVE SumSizes(_)
SumSizes(parts) == IF parts = <<>> THEN 0 ELSE parts[1].size + SumSizes(Tail(parts))

-----------------------------------------------------------------------------
(* findPageRangesForSize *)

\* The page ranges a probe extraction can be asked for.
ProbePairs(totalPages) == {p \in (1..totalPages) \X (1..totalPages) : p[1] <= p[2]}

\* Sizes a probe extraction can have: at the ceiling, and one byte over it.
ProbeSizes == {MAX_SIZE_BYTES, MAX_SIZE_BYTES + 1}

\* Sizes of the converted document handed to the partitioner.
FileSizes == {MAX_SIZE_BYTES + 1, 2 * MAX_SIZE_BYTES, 4 * MAX_SIZE_BYTES}

\* extractSize / tryExtractSize: the size of the extraction of pages start..end.
extractSize(probe, start, end) == probe[<<start, end>>]

\* Math.max(1, Math.floor((maxSize * 0.85) / (fileSize / totalPages))), in exact
\* arithmetic: 0.85 = 17/20, and maxSize is a multiple of 4, which keeps the
\* products inside 32 bits.
estimatedPagesPerChunk(maxSize, fileSize, totalPages) ==
    Max(1, (17 * (maxSize \div 4) * totalPages) \div (5 * fileSize))

\* A variant of the grow loop that keeps the page whose probe exceeded the
\* ceiling.
RECURSIVE GrowLoop_AcceptsOversize(_, _, _, _, _, _, _)
GrowLoop_AcceptsOversize(probe, maxSize, totalPages, currentPage, candidateEnd, size, probes) ==
    IF candidateEnd + 1 <= totalPages /\ probes < MAX_GROW_PROBES
    THEN LET nextSize == extractSize(probe, currentPage, candidateEnd + 1)
         IN  IF nextSize > maxSize
             THEN [end |-> candidateEnd + 1, size |-> nextSize, probes |-> probes + 1]
             ELSE GrowLoop_AcceptsOversize(probe, maxSize, totalPages, currentPage,
                                           candidateEnd + 1, nextSize, probes + 1)
    ELSE [end |-> candidateEnd, size |-> size, probes |-> probes]

\* The grow loop (lines 520-527): candidateEnd fitted; probe one more page at a
\* time, at most MAX_GROW_PROBES times.  Yields the end page, the size last
\* measured for it and the probes spent.
RECURSIVE GrowLoop(_, _, _, _, _, _, _)
GrowLoop(probe, maxSize, totalPages, currentPage, candidateEnd, size, probes) ==
    IF candidateEnd + 1 <= totalPages /\ probes < MAX_GROW_PROBES
    THEN LET nextSize == extractSize(probe, currentPage, candidateEnd + 1)
         IN  IF nextSize > maxSize
             THEN [end |-> candidateEnd, size |-> size, probes |-> probes + 1]
             ELSE GrowLoop(probe, maxSize, totalPages, currentPage,
                           candidateEnd + 1, nextSize, probes + 1)
    ELSE [end |-> candidateEnd, size |-> size, probes |-> probes]

\* The shrink loop (lines 529-533): candidateEnd did not fit; drop one page at a
\* time until the range fits or is a single page.
RECURSIVE ShrinkLoop(_, _, _, _, _, _)
ShrinkLoop(probe, maxSize, currentPage, candidateEnd, size, probes) ==
    IF candidateEnd > currentPage
    THEN LET c == candidateEnd - 1
             s == extractSize(probe, currentPage, c)
         IN  IF s <= maxSize
             THEN [end |-> c, size |-> s, probes |-> probes + 1]
             ELSE ShrinkLoop(probe, maxSize, currentPage, c, s, probes + 1)
    ELSE [end |-> candidateEnd, size |-> size, probes |-> probes]

\* One iteration of the outer loop of the current revision (lines 508-540):
\* the range it emits, whether it is the last (break), the size measured for
\* the emitted range and the probes spent.
CurrentIteration(probe, maxSize, totalPages, est, currentPage) ==
    LET tryRest == currentPage + est - 1 >= totalPages
        restSize == extractSize(probe, currentPage, totalPages)
        n0 == IF tryRest THEN 1 ELSE 0
        candidateEnd == Min(currentPage + est - 1, totalPages)
        size == extractSize(probe, currentPage, candidateEnd)
        r == IF size <= maxSize
             THEN GrowLoop(probe, maxSize, totalPages, currentPage, candidateEnd, size, 0)
             ELSE ShrinkLoop(probe, maxSize, currentPage, candidateEnd, size, 0)
    IN  IF tryRest /\ restSize <= maxSize
        THEN [end |-> totalPages, size |-> restSize, probes |-> 1, brk |-> TRUE]
        ELSE [end |-> r.end, size |-> r.size, probes |-> n0 + 1 + r.probes, brk |-> FALSE]

\* A variant of the binary search that stops at the first probe that fits.
RECURSIVE BinarySearch_FirstFit(_, _, _, _, _, _, _, _)
BinarySearch_FirstFit(probe, maxSize, currentPage, lo, hi, bestEnd, size, probes) ==
    IF lo <= hi
    THEN LET mid == (lo + hi) \div 2
             s == extractSize(probe, currentPage, mid)
         IN  IF s <= maxSize
             THEN [end |-> mid, size |-> s, probes |-> probes + 1]
             ELSE BinarySearch_FirstFit(probe, maxSize, currentPage, lo, mid - 1, bestEnd,
                               IF bestEnd = currentPage /\ mid = currentPage THEN s ELSE size,
                               probes + 1)
    ELSE [end |-> bestEnd, size |-> size, probes |-> probes]

\* The binary search of the older revision (lines 81-90).
RECURSIVE BinarySearch(_, _, _, _, _, _, _, _)
BinarySearch(probe, maxSize, currentPage, lo, hi, bestEnd, size, probes) ==
    IF lo <= hi
    THEN LET mid == (lo + hi) \div 2
             s == extractSize(probe, currentPage, mid)
         IN  IF s <= maxSize
             THEN BinarySearch(probe, maxSize, currentPage, mid + 1, hi, mid, s, probes + 1)
             ELSE BinarySearch(probe, maxSize, currentPage, lo, mid - 1, bestEnd,
                               IF bestEnd = currentPage /\ mid = currentPage THEN s ELSE size,
                               probes + 1)
    ELSE [end |-> bestEnd, size |-> size, probes |-> probes]

\* One iteration of the outer loop of the binary-search revision (lines 70-93).
\* size is the size measured for the emitted range, or 0 when the emitted
\* single page was never measured on its own.
BinaryIteration(probe, maxSize, totalPages, currentPage) ==
    LET restSize == extractSize(probe, currentPage, totalPages)
        r == BinarySearch(probe, maxSize, currentPage, currentPage, totalPages - 1,
                          currentPage,
                          IF currentPage = totalPages THEN restSize ELSE 0, 0)
    IN  IF restSize <= maxSize
        THEN [end |-> totalPages, size |-> restSize, probes |-> 1, brk |-> TRUE]
        ELSE [end |-> r.end, size |-> r.size, probes |-> 1 + r.probes, brk |-> FALSE]

\* A variant of the iteration that drops the single page that does not fit:
\* it emits an empty range and does not advance.
Iteration_DropsOversizePage(rev, probe, maxSize, fileSize, totalPages, currentPage) ==
    LET it == IF rev = "current"
              THEN CurrentIteration(probe, maxSize, totalPages,
                                    estimatedPagesPerChunk(maxSize, fileSize, totalPages),
                                    currentPage)
              ELSE BinaryIteration(probe, maxSize, totalPages, currentPage)
    IN  IF it.size > maxSize THEN [it EXCEPT !.end = currentPage - 1] ELSE it

Iteration(rev, probe, maxSize, fileSize, totalPages, currentPage) ==
    IF rev = "current"
    THEN CurrentIteration(probe, maxSize, totalPages,
                          estimatedPagesPerChunk(maxSize, fileSize, totalPages), currentPage)
    ELSE BinaryIteration(probe, maxSize, totalPages, currentPage)

\* The whole function: the list of ranges, each with the size measured for it.
RECURSIVE RangesFrom(_, _, _, _, _, _)
RangesFrom(rev, probe, maxSize, fileSize, totalPages, currentPage) ==
    IF currentPage <= totalPages
    THEN LET it == Iteration(rev, probe, maxSize, fileSize, totalPages, currentPage)
             rg == [start |-> currentPage, end |-> it.end, size |-> it.size]
         IN  IF it.brk
             THEN <<rg>>
             ELSE <<rg>> \o RangesFrom(rev, probe, maxSize, fileSize, totalPages, it.end + 1)
    ELSE <<>>

findPageRangesForSize(rev, probe, maxSize, fileSize, totalPages) ==
    IF totalPages <= 1
    THEN <<[start |-> 1, end |-> 1, size |-> 0]>>
    ELSE RangesFrom(rev, probe, maxSize, fileSize, totalPages, 1)

\* ---- the partitioner as a state machine, one outer iteration per step

RangesIdle ==
    /\ rRev = "current"
    /\ rTotalPages = 0
    /\ rFileSize = 0
    /\ rProbe = <<>>
    /\ rPc = "off"
    /\ rCurrentPage = 0
    /\ rRanges = <<>>
    /\ rProbeLog = <<>>

RangesInit ==
    /\ rRev \in {"current", "binary"}
    /\ rTotalPages \in 0..MaxPages
    /\ rFileSize \in FileSizes
    /\ rProbe \in [ProbePairs(rTotalPages) -> ProbeSizes]
    /\ rPc = "start"
    /\ rCurrentPage = 1
    /\ rRanges = <<>>
    /\ rProbeLog = <<>>

\* ---- documents whose probe sizes are monotone in the end page

LongPages == 13

MaxHuge == 2

\* A page is small (a sixteenth of the ceiling) or huge (six times the ceiling).
SmallPage == MAX_SIZE_BYTES \div 16

HugePage == 6 * MAX_SIZE_BYTES

RECURSIVE SumPages(_, _, _)
SumPages(pages, start, end) ==
    IF start > end THEN 0 ELSE pages[start] + SumPages(pages, start + 1, end)

\* The extraction of pages start..end has the size of its pages together.
AdditiveProbe(pages) ==
    [p \in ProbePairs(Len(pages)) |-> SumPages(pages, p[1], p[2])]

PageSizeLists(n) ==
    {pages \in [1..n -> {SmallPage, HugePage}] :
        Cardinality({i \in 1..n : pages[i] = HugePage}) <= MaxHuge}

\* The partitioner called on a document of 1..LongPages pages, whose size is
\* the size of its pages together.
MonotoneInit ==
    /\ rRev = "current"
    /\ rTotalPages \in 1..LongPages
    /\ \E pages \in PageSizeLists(rTotalPages) :
          /\ rFileSize = SumPages(pages, 1, rTotalPages)
          /\ rProbe = AdditiveProbe(pages)
    /\ rPc = "start"
    /\ rCurrentPage = 1
    /\ rRanges = <<>>
    /\ rProbeLog = <<>>

\* Lines 481-483 / 47-49: a document of at most one page is returned whole.
FindReturnSingle ==
    /\ rPc = "start"
    /\ rTotalPages <= 1
    /\ rRanges' = <<[start |-> 1, end |-> 1, size |-> 0]>>
    /\ rPc' = "returned"
    /\ UNCHANGED <<rRev, rTotalPages, rFileSize, rProbe, rCurrentPage, rProbeLog>>

\* Lines 501-505 / 67-68: set up the loop.
FindEnterLoop ==
    /\ rPc = "start"
    /\ rTotalPages > 1
    /\ rPc' = "loop"
    /\ UNCHANGED <<rRev, rTotalPages, rFileSize, rProbe, rCurrentPage, rRanges, rProbeLog>>

\* A variant of the iteration that continues at candidateEnd instead of
\* candidateEnd + 1.
FindIterate_Overlap ==
    /\ rPc = "loop"
    /\ rCurrentPage <= rTotalPages
    /\ Len(rRanges) <= MaxPages
    /\ LET it == Iteration(rRev, rProbe, MAX_SIZE_BYTES, rFileSize, rTotalPages, rCurrentPage)
       IN  /\ rRanges' = Append(rRanges, [start |-> rCurrentPage, end |-> it.end, size |-> it.size])
           /\ rProbeLog' = Append(rProbeLog, it.probes)
           /\ IF it.brk
              THEN rPc' = "returned" /\ UNCHANGED rCurrentPage
              ELSE rPc' = "loop" /\ rCurrentPage' = it.end
    /\ UNCHANGED <<rRev, rTotalPages, rFileSize, rProbe>>

\* One iteration of while (currentPage <= totalPages).
FindIterate ==
    /\ rPc = "loop"
    /\ rCurrentPage <= rTotalPages
    /\ LET it == Iteration(rRev, rProbe, MAX_SIZE_BYTES, rFileSize, rTotalPages, rCurrentPage)
       IN  /\ rRanges' = Append(rRanges, [start |-> rCurrentPage, end |-> it.end, size |-> it.size])
           /\ rProbeLog' = Append(rProbeLog, it.probes)
           /\ IF it.brk
              THEN rPc' = "returned" /\ UNCHANGED rCurrentPage
              ELSE rPc' = "loop" /\ rCurrentPage' = it.end + 1
    /\ UNCHANGED <<rRev, rTotalPages, rFileSize, rProbe>>

\* The loop condition fails: return ranges.
FindReturn ==
    /\ rPc = "loop"
    /\ rCurrentPage > rTotalPages
    /\ rPc' = "returned"
    /\ UNCHANGED <<rRev, rTotalPages, rFileSize, rProbe, rCurrentPage, rRanges, rProbeLog>>

-----------------------------------------------------------------------------
(* convertToPdfAParallel *)

\* A variant that puts the whole document in one chunk.
pagesPerChunk_Whole(totalPages) == totalPages

\* Math.ceil(totalPages / NUM_WORKERS)
pagesPerChunk(totalPages) == (totalPages + NUM_WORKERS - 1) \div NUM_WORKERS

\* A variant of the loop that does not clamp the end of a chunk to the last
\* page.
RECURSIVE ChunksFrom_Unclamped(_, _)
ChunksFrom_Unclamped(totalPages, i) ==
    LET start == i * pagesPerChunk(totalPages) + 1
        end == (i + 1) * pagesPerChunk(totalPages)
    IN  IF i < NUM_WORKERS /\ ~(start > totalPages)
        THEN <<[start |-> start, end |-> end]>> \o ChunksFrom_Unclamped(totalPages, i + 1)
        ELSE <<>>

\* The chunk-creation loop (lines 614-626), from worker index i on.
RECURSIVE ChunksFrom(_, _)
ChunksFrom(totalPages, i) ==
    LET start == i * pagesPerChunk(totalPages) + 1
        end == Min((i + 1) * pagesPerChunk(totalPages), totalPages)
    IN  IF i < NUM_WORKERS /\ ~(start > totalPages)
        THEN <<[start |-> start, end |-> end]>> \o ChunksFrom(totalPages, i + 1)
        ELSE <<>>

Chunks(totalPages) == ChunksFrom(totalPages, 0)

\* The files of a call: chunkPath and convertedPath of chunk i, the definition
\* file convertToPdfA writes next to its output, the merged intermediate and
\* the output itself.
ChunkFile(i) == <<"chunk", i>>

ConvertedFile(i) == <<"converted", i>>

DefFile(i) == <<"def", i>>

MergedFile == <<"merged", 0>>

OutputFile == <<"output", 0>>

OutputDefFile == <<"def", 0>>

\* The catch block (lines 679-685): unlink chunkPath and convertedPath of every chunk.
CatchCleanup(files, chunks) ==
    files \ ({ChunkFile(i) : i \in DOMAIN chunks} \cup {ConvertedFile(i) : i \in DOMAIN chunks})

\* A variant of the page list that names the chunks last to first.
MergeList_Reversed(chunks) == [i \in DOMAIN chunks |-> Len(chunks) + 1 - i]

\* The page list of the merge (lines 657-663): chunks.map(chunk => chunk.convertedPath).
MergeList(chunks) == [i \in DOMAIN chunks |-> i]

\* Page counts the call is run on: below, at and above the parallel threshold.
\* The largest page count of the chunk-creation specification.
MaxChunkPages == 40

ParallelPages == {MIN_PAGES_FOR_PARALLEL - 1, MIN_PAGES_FOR_PARALLEL, MIN_PAGES_FOR_PARALLEL + 1}

\* Processes of the call that are still running.
RunningExtractions == {i \in DOMAIN pExtract : pExtract[i] = "running"}

RunningConversions == {i \in DOMAIN pConvert : pConvert[i] = "running"}

ParIdle ==
    /\ pTotalPages = 0
    /\ pPc = "off"
    /\ pChunks = <<>>
    /\ pExtract = <<>>
    /\ pConvert = <<>>
    /\ pFiles = {}
    /\ pCompleted = 0
    /\ pProgress = <<>>
    /\ pOutOfOrder = FALSE
    /\ pMergeArgs = <<>>

ParInit ==
    /\ pTotalPages \in ParallelPages
    /\ pPc = "count"
    /\ pChunks = <<>>
    /\ pExtract = <<>>
    /\ pConvert = <<>>
    /\ pFiles = {}
    /\ pCompleted = 0
    /\ pProgress = <<>>
    /\ pOutOfOrder = FALSE
    /\ pMergeArgs = <<>>

\* Line 599 returns, then lines 602-636: a small document goes to convertToPdfA
\* (which writes its definition file and starts gs); otherwise the chunks are
\* built and every extraction is started at once.  A failing page count is
\* thrown before the try block.
ParCountDone ==
    /\ pPc = "count"
    /\ \E ok \in BOOLEAN :
         IF ~ok
         THEN /\ pPc' = "threw"
              /\ UNCHANGED <<pChunks, pExtract, pFiles>>
         ELSE IF pTotalPages < MIN_PAGES_FOR_PARALLEL
         THEN /\ pPc' = "single"
              /\ pFiles' = pFiles \cup {OutputDefFile}
              /\ UNCHANGED <<pChunks, pExtract>>
         ELSE /\ pPc' = "extract"
              /\ pChunks' = Chunks(pTotalPages)
              /\ pExtract' = [i \in DOMAIN Chunks(pTotalPages) |-> "running"]
              /\ UNCHANGED pFiles
    /\ UNCHANGED <<pTotalPages, pConvert, pCompleted, pProgress, pOutOfOrder, pMergeArgs>>

\* The single gs pass ends (lines 583-587): the definition file is unlinked in
\* the finally block; gs wrote the output iff it succeeded.
ParSingleDone ==
    /\ pPc = "single"
    /\ \E ok \in BOOLEAN :
         /\ pFiles' = (pFiles \ {OutputDefFile}) \cup (IF ok THEN {OutputFile} ELSE {})
         /\ pPc' = IF ok THEN "returned" ELSE "threw"
    /\ UNCHANGED <<pTotalPages, pChunks, pExtract, pConvert, pCompleted, pProgress,
                   pOutOfOrder, pMergeArgs>>

\* The qpdf extraction of chunk i ends.  It wrote chunkPath iff it succeeded.
\* While the call awaits Promise.all (line 630): the first failure rejects it
\* and the catch block runs; the last success starts every conversion (each
\* writes its definition file and starts gs).  After the call threw, the
\* process is a sibling nobody awaits: its file stays.
ParExtractDone(i) ==
    /\ pPc \in {"extract", "threw"}
    /\ i \in RunningExtractions
    /\ \E ok \in BOOLEAN :
         LET ex == [pExtract EXCEPT ![i] = IF ok THEN "ok" ELSE "failed"]
             files == IF ok THEN pFiles \cup {ChunkFile(i)} ELSE pFiles
         IN  /\ pExtract' = ex
             /\ IF pPc = "threw"
                THEN /\ pFiles' = files
                     /\ UNCHANGED <<pPc, pConvert>>
                ELSE IF ~ok
                THEN /\ pFiles' = CatchCleanup(files, pChunks)
                     /\ pPc' = "threw"
                     /\ UNCHANGED pConvert
                ELSE IF \A j \in DOMAIN ex : ex[j] = "ok"
                THEN /\ pFiles' = files \cup {DefFile(j) : j \in DOMAIN pChunks}
                     /\ pPc' = "convert"
                     /\ pConvert' = [j \in DOMAIN pChunks |-> "running"]
                ELSE /\ pFiles' = files
                     /\ UNCHANGED <<pPc, pConvert>>
    /\ UNCHANGED <<pTotalPages, pChunks, pCompleted, pProgress, pOutOfOrder, pMergeArgs>>

\* Step 3 starts (lines 649-665) once every conversion resolved: one chunk is
\* renamed to the output; several are merged by qpdf.
StartMerge(files, chunks) ==
    IF Len(chunks) = 1
    THEN [pc |-> "returned", args |-> <<>>,
          files |-> (files \ {ConvertedFile(1)}) \cup {OutputFile}]
    ELSE [pc |-> "merge", args |-> MergeList(chunks), files |-> files]

\* A variant that reports the index of the chunk instead of the number of
\* chunks completed so far.
ParConvertDone_ReportsIndex(i) ==
    /\ pPc \in {"convert", "threw"}
    /\ i \in RunningConversions
    /\ \E ok \in BOOLEAN :
         LET cv == [pConvert EXCEPT ![i] = IF ok THEN "ok" ELSE "failed"]
             files == IF ok
                      THEN ((pFiles \ {DefFile(i)}) \cup {ConvertedFile(i)}) \ {ChunkFile(i)}
                      ELSE pFiles \ {DefFile(i)}
         IN  /\ pConvert' = cv
             /\ pOutOfOrder' = (pOutOfOrder \/ \E j \in DOMAIN pConvert :
                                                 j > i /\ pConvert[j] # "running")
             /\ IF ok
                THEN /\ pCompleted' = pCompleted + 1
                     /\ pProgress' = Append(pProgress, <<i, Len(pChunks)>>)
                ELSE UNCHANGED <<pCompleted, pProgress>>
             /\ IF pPc = "threw"
                THEN /\ pFiles' = files
                     /\ UNCHANGED <<pPc, pMergeArgs>>
                ELSE IF ~ok
                THEN /\ pFiles' = CatchCleanup(files, pChunks)
                     /\ pPc' = "threw"
                     /\ UNCHANGED pMergeArgs
                ELSE IF \A j \in DOMAIN cv : cv[j] = "ok"
                THEN LET m == StartMerge(files, pChunks)
                     IN  /\ pFiles' = m.files
                         /\ pPc' = m.pc
                         /\ pMergeArgs' = m.args
                ELSE /\ pFiles' = files
                     /\ UNCHANGED <<pPc, pMergeArgs>>
    /\ UNCHANGED <<pTotalPages, pChunks, pExtract>>

\* The gs conversion of chunk i ends (lines 640-646).  convertToPdfA unlinks
\* the definition file; on success gs wrote convertedPath and the callback
\* counts the chunk, reports progress and unlinks chunkPath, also when the
\* call has already thrown.  The first failure rejects Promise.all and runs
\* the catch block.
ParConvertDone(i) ==
    /\ pPc \in {"convert", "threw"}
    /\ i \in RunningConversions
    /\ \E ok \in BOOLEAN :
         LET cv == [pConvert EXCEPT ![i] = IF ok THEN "ok" ELSE "failed"]
             files == IF ok
                      THEN ((pFiles \ {DefFile(i)}) \cup {ConvertedFile(i)}) \ {ChunkFile(i)}
                      ELSE pFiles \ {DefFile(i)}
         IN  /\ pConvert' = cv
             /\ pOutOfOrder' = (pOutOfOrder \/ \E j \in DOMAIN pConvert :
                                                 j > i /\ pConvert[j] # "running")
             /\ IF ok
                THEN /\ pCompleted' = pCompleted + 1
                     /\ pProgress' = Append(pProgress, <<pCompleted + 1, Len(pChunks)>>)
                ELSE UNCHANGED <<pCompleted, pProgress>>
             /\ IF pPc = "threw"
                THEN /\ pFiles' = files
                     /\ UNCHANGED <<pPc, pMergeArgs>>
                ELSE IF ~ok
                THEN /\ pFiles' = CatchCleanup(files, pChunks)
                     /\ pPc' = "threw"
                     /\ UNCHANGED pMergeArgs
                ELSE IF \A j \in DOMAIN cv : cv[j] = "ok"
                THEN LET m == StartMerge(files, pChunks)
                     IN  /\ pFiles' = m.files
                         /\ pPc' = m.pc
                         /\ pMergeArgs' = m.args
                ELSE /\ pFiles' = files
                     /\ UNCHANGED <<pPc, pMergeArgs>>
    /\ UNCHANGED <<pTotalPages, pChunks, pExtract>>

\* A variant of the end of the merge that takes the merged file as the output.
ParMergeDone_AcceptMerged ==
    /\ pPc = "merge"
    /\ \E ok \in BOOLEAN :
         IF ok
         THEN /\ pFiles' = (pFiles \cup {OutputFile}) \ {ConvertedFile(i) : i \in DOMAIN pChunks}
              /\ pPc' = "returned"
         ELSE /\ pFiles' = CatchCleanup(pFiles, pChunks)
              /\ pPc' = "threw"
    /\ UNCHANGED <<pTotalPages, pChunks, pExtract, pConvert, pCompleted, pProgress,
                   pOutOfOrder, pMergeArgs>>

\* The qpdf merge ends (line 665).  On success the merged intermediate exists
\* and the reconversion starts (line 669); on failure the catch block runs.
ParMergeDone ==
    /\ pPc = "merge"
    /\ \E ok \in BOOLEAN :
         IF ok
         THEN /\ pFiles' = pFiles \cup {MergedFile, OutputDefFile}
              /\ pPc' = "reconvert"
         ELSE /\ pFiles' = CatchCleanup(pFiles, pChunks)
              /\ pPc' = "threw"
    /\ UNCHANGED <<pTotalPages, pChunks, pExtract, pConvert, pCompleted, pProgress,
                   pOutOfOrder, pMergeArgs>>

\* The reconversion of the merged intermediate ends (lines 669-678).  On
\* success the merged file and every converted chunk are unlinked; on failure
\* the catch block runs.
ParReconvertDone ==
    /\ pPc = "reconvert"
    /\ \E ok \in BOOLEAN :
         IF ok
         THEN /\ pFiles' = (((pFiles \ {OutputDefFile}) \cup {OutputFile}) \ {MergedFile})
                             \ {ConvertedFile(i) : i \in DOMAIN pChunks}
              /\ pPc' = "returned"
         ELSE /\ pFiles' = CatchCleanup(pFiles \ {OutputDefFile}, pChunks)
              /\ pPc' = "threw"
    /\ UNCHANGED <<pTotalPages, pChunks, pExtract, pConvert, pCompleted, pProgress,
                   pOutOfOrder, pMergeArgs>>

-----------------------------------------------------------------------------
(* /api/convert, the session table and the progress stream *)

SessionIds == 1..NumSessions

ClientIds == 1..NumClients

\* Events of a session log: <<type, kind, file, part, x, y>>.  type is "log",
\* "result" or "error"; kind names the message of a log event; file and part
\* are the indices the message carries, x and y its remaining numbers.
LogEvent(kind, fi, part, x, y) == <<"log", kind, fi, part, x, y>>

ResultEvent == <<"result", "", 0, 0, 0, 0>>

ErrorEvent(fi) == <<"error", "", fi, 0, 0, 0>>

IsTerminal(ev) == ev[1] \in {"result", "error"}

\* Files of a session directory: <<directory, base name, kind, index>>.
TempConvertedPath(doc) == <<"split", doc.name, "pdfa_full", 0>>

PartOrigPath(doc, i) == <<"split", doc.name, "orig_part", i>>

PartFinalPath(doc, i) == <<"converted", doc.name, "parte", i>>

FinalPath(doc) == <<"converted", doc.name, "pdf", 0>>

NamesPath == <<"root", "", "original_names", 0>>

\* What verifyPdfA can answer.
Verifications == {[valid |-> TRUE, conformance |-> "PDF/A-1b"],
                  [valid |-> FALSE, conformance |-> "null"]}

\* Sizes a converted part can have.
PartSizes == {MAX_SIZE_BYTES, MAX_SIZE_BYTES + 1}

\* An uploaded document: base name, page count, size of its full conversion,
\* the probe sizes the partitioner can meet on it (fit = -1: any assignment of
\* sizes to ranges; fit = k: a range fits the ceiling iff it has at most k
\* pages), and whether the sizes of its converted parts and the answers of
\* verifyPdfA vary.
Doc(name, pages, size, fit, vary) ==
    [name |-> name, pages |-> pages, size |-> size, fit |-> fit, vary |-> vary]

Probes(doc) ==
    IF doc.fit = -1
    THEN [ProbePairs(doc.pages) -> ProbeSizes]
    ELSE {[p \in ProbePairs(doc.pages) |->
             IF p[2] - p[1] + 1 <= doc.fit THEN MAX_SIZE_BYTES ELSE MAX_SIZE_BYTES + 1]}

PartSizeChoices(doc) == IF doc.vary THEN PartSizes ELSE {MAX_SIZE_BYTES}

VerificationChoices(doc) ==
    IF doc.vary THEN Verifications ELSE {[valid |-> TRUE, conformance |-> "PDF/A-1b"]}

\* A conversion request: the uploaded files and the notification address
\* (none, valid or invalid).
NoRequest == [batch |-> <<>>, email |-> "none"]

\* Documents whose probe sizes, part sizes and verification are fixed.
PlainDocs ==
    {Doc("a", 1, MAX_SIZE_BYTES, 1, FALSE),
     Doc("a", 1, MAX_SIZE_BYTES + 1, 0, FALSE),
     Doc("b", 2, MAX_SIZE_BYTES + 1, 1, FALSE)}

\* Documents on which they vary, and documents above the parallel threshold.
RichDocs ==
    {Doc("a", 1, MAX_SIZE_BYTES + 1, -1, TRUE),
     Doc("a", 2, MAX_SIZE_BYTES, -1, TRUE),
     Doc("b", 2, MAX_SIZE_BYTES + 1, -1, TRUE),
     Doc("a", 3, 2 * MAX_SIZE_BYTES, -1, TRUE),
     Doc("b", MIN_PAGES_FOR_PARALLEL, MAX_SIZE_BYTES, 1, TRUE),
     Doc("b", MIN_PAGES_FOR_PARALLEL + 1, MAX_SIZE_BYTES + 1, MIN_PAGES_FOR_PARALLEL, FALSE)}

\* Requests of the batch specification: one document of any kind, or up to
\* NumFiles plain documents.
BatchRequests ==
    {[batch |-> b, email |-> e] :
        b \in [1..1 -> RichDocs] \cup UNION {[1..n -> PlainDocs] : n \in 1..NumFiles},
        e \in {"none", "valid", "invalid"}}

\* Requests of the stream specification: a 16-page document converted in
\* chunks, and a batch of two small documents, the second of which is split.
StreamRequests ==
    {[batch |-> <<Doc("a", MIN_PAGES_FOR_PARALLEL, MAX_SIZE_BYTES, 1, FALSE)>>,
      email |-> "valid"],
     [batch |-> <<Doc("a", 1, MAX_SIZE_BYTES, 1, FALSE), Doc("b", 2, MAX_SIZE_BYTES + 1, 1, FALSE)>>,
      email |-> "invalid"]}

\* Number of chunks of a conversion; 0 is the single pass below the threshold.
ChunkCount(pages) == IF pages < MIN_PAGES_FOR_PARALLEL THEN 0 ELSE Len(Chunks(pages))

NoConv == [phase |-> "none", n |-> 0, k |-> 0]

NoStray == [run |-> 0, k |-> 0, n |-> 0, fi |-> 0, part |-> 0]

NoSession ==
    [inTable |-> FALSE, done |-> FALSE, logs |-> <<>>, clients |-> {}, timer |-> -1,
     age |-> -1, purged |-> FALSE, dirAge |-> -1, upAge |-> -1,
     dl |-> "idle", bundle |-> {}, dlLog |-> <<>>,
     batch |-> <<>>, email |-> "none", pc |-> "none", fi |-> 0, part |-> 0,
     conv |-> NoConv, stray |-> NoStray, ranges |-> <<>>, parts |-> <<>>,
     results |-> <<>>, dir |-> FALSE, files |-> {}, uploads |-> {}, failed |-> 0]

NoClient == [state |-> "none", session |-> 0, received |-> <<>>]

\* A world is one session with the observers: what a handler step reads and writes.
World(s) == [s |-> sess[s], cl |-> cl]

\* broadcastToSession (lines 741-751).
broadcastToSession(w, event) ==
    IF ~w.s.inTable
    THEN w
    ELSE [s |-> [w.s EXCEPT !.logs = Append(@, event)],
          cl |-> [c \in ClientIds |->
                    IF c \in w.s.clients
                    THEN [w.cl[c] EXCEPT !.received = Append(@, event)]
                    ELSE w.cl[c]]]

\* sendLog (lines 820-822).
sendLog(w, kind, fi, part, x, y) == broadcastToSession(w, LogEvent(kind, fi, part, x, y))

\* A variant of cleanupSession whose timer is due at once.
cleanupSession_NoDelay(s) == [s EXCEPT !.timer = SESSION_CLEANUP_DELAY]

\* cleanupSession (lines 753-757): start the timer that deletes the table entry.
cleanupSession(s) == [s EXCEPT !.timer = 0]

\* Lines 987-989 and 996-998: mark the entry done, if it is still in the table.
MarkDone(w) ==
    [w EXCEPT !.s = cleanupSession([w.s EXCEPT !.done = IF w.s.inTable THEN TRUE ELSE @,
                                               !.age = 0, !.pc = "end"])]

\* A variant of the catch block that unlinks the uploads up to the failing file only.
CatchUnlinked_UpToCurrent(s) == 1..s.fi

\* The files the catch block unlinks (lines 992-994): every upload of the batch.
CatchUnlinked(s) == 1..Len(s.batch)

\* The catch of the handler (lines 990-999).  fi is the file whose step threw.
Catch(w, fi) ==
    LET cleaned == [w.s EXCEPT !.dir = FALSE, !.files = {}, !.dirAge = -1,
                               !.uploads = @ \ CatchUnlinked(w.s),
                               !.failed = fi, !.conv = NoConv]
    IN  MarkDone(broadcastToSession([w EXCEPT !.s = cleaned], ErrorEvent(fi)))

\* Lines 986-989: publish the result and mark the session done.
Finish(w) == MarkDone(broadcastToSession(w, ResultEvent))

\* Lines 944-984, after the loop: write the names file, report completion and
\* either send the notification or finish.
AfterLoop(w) ==
    IF ~w.s.dir
    THEN Catch(w, Len(w.s.batch) + 1)
    ELSE LET w1 == sendLog([w EXCEPT !.s.files = @ \cup {NamesPath}, !.s.dirAge = 0],
                           "complete", 0, 0, 0, 0)
         IN  IF w.s.email = "valid"
             THEN [w1 EXCEPT !.s.pc = "email"]
             ELSE Finish(w1)

\* A variant of the head of the iteration that reports the conversion before the file.
LoopHead_ConvertingFirst(w, fi) ==
    IF fi > Len(w.s.batch)
    THEN AfterLoop(w)
    ELSE IF fi \notin w.s.uploads
    THEN Catch(w, fi)
    ELSE LET w1 == sendLog(w, "converting", fi, 0, 0, 0)
             w2 == sendLog(w1, "start", fi, 0, 0, 0)
         IN  [w2 EXCEPT !.s.pc = "conv", !.s.fi = fi, !.s.part = 0,
                        !.s.conv = [phase |-> "count", n |-> 0, k |-> 0],
                        !.s.ranges = <<>>, !.s.parts = <<>>]

\* Lines 831-851, the head of the iteration for file fi up to the first await
\* inside convertToPdfAParallel; or the end of the loop.
LoopHead(w, fi) ==
    IF fi > Len(w.s.batch)
    THEN AfterLoop(w)
    ELSE IF fi \notin w.s.uploads
    THEN Catch(w, fi)
    ELSE LET w1 == sendLog(w, "start", fi, 0, 0, 0)
             w2 == sendLog(w1, "converting", fi, 0, 0, 0)
         IN  [w2 EXCEPT !.s.pc = "conv", !.s.fi = fi, !.s.part = 0,
                        !.s.conv = [phase |-> "count", n |-> 0, k |-> 0],
                        !.s.ranges = <<>>, !.s.parts = <<>>]

\* A variant that goes to the next iteration without unlinking the upload.
NextFile_KeepUpload(w, fi) == LoopHead(w, fi + 1)

\* Line 941, then the next iteration.
NextFile(w, fi) == LoopHead([w EXCEPT !.s.uploads = @ \ {fi}], fi + 1)

\* Lines 853-868 and 921-941: the full conversion of file fi returned.
AfterFullConversion(w, v) ==
    LET fi == w.s.fi
        doc == w.s.batch[fi]
        w0 == [w EXCEPT !.s.conv = NoConv, !.s.files = @ \cup {TempConvertedPath(doc)}]
        w1 == sendLog(w0, "converted", fi, 0, 0, 0)
        convertedSize == doc.size
        w2 == sendLog(w1, "size", fi, 0, 0, 0)
    IN  IF convertedSize > MAX_SIZE_BYTES
        THEN [sendLog(w2, "oversize", fi, 0, 0, 0) EXCEPT !.s.pc = "ranges"]
        ELSE LET w3 == [w2 EXCEPT !.s.files = (@ \ {TempConvertedPath(doc)}) \cup {FinalPath(doc)}]
                 w4 == sendLog(w3, "verify", fi, 0, 0, 0)
                 w5 == sendLog(w4, "verdict", fi, 0, IF v.valid THEN 1 ELSE 0, 0)
                 w6 == [w5 EXCEPT !.s.results = Append(@,
                            [file |-> fi, wasSplit |-> FALSE, outputSize |-> convertedSize,
                             parts |-> 0, verified |-> v.valid, conformance |-> v.conformance,
                             partsDetail |-> <<>>])]
             IN  NextFile(w6, fi)

\* Lines 873-880: start the extraction of part i from the uploaded original.
StartPart(w, i) == [w EXCEPT !.s.pc = "extract", !.s.part = i]

\* A variant that leaves the full conversion in the split directory.
AfterRanges_KeepsFullConversion(w, ranges) ==
    LET fi == w.s.fi
        w1 == [w EXCEPT !.s.ranges = ranges]
        w2 == sendLog(w1, "split", fi, 0, Len(ranges), 0)
    IN  StartPart(w2, 1)

\* Lines 867-880: findPageRangesForSize returned the ranges.
AfterRanges(w, ranges) ==
    LET fi == w.s.fi
        doc == w.s.batch[fi]
        w1 == [w EXCEPT !.s.ranges = ranges, !.s.files = @ \ {TempConvertedPath(doc)}]
        w2 == sendLog(w1, "split", fi, 0, Len(ranges), 0)
    IN  StartPart(w2, 1)

\* Lines 882-893: part i was extracted; report it and start its conversion.
AfterPartExtraction(w) ==
    LET fi == w.s.fi
        i == w.s.part
        rg == w.s.ranges[i]
        w1 == [w EXCEPT !.s.files = @ \cup {PartOrigPath(w.s.batch[fi], i)}]
        w2 == sendLog(w1, "partStart", fi, i, rg.start, rg.end)
    IN  [w2 EXCEPT !.s.pc = "partconv", !.s.conv = [phase |-> "count", n |-> 0, k |-> 0]]

\* A variant that reports every converted part as within the ceiling.
PartLogKind_NoWarning(partSize) == "partDone"

\* Lines 901-907: which line reports a converted part.
PartLogKind(partSize) == IF partSize > MAX_SIZE_BYTES THEN "warn" ELSE "partDone"

\* Lines 895-920 and 941: the conversion of part i returned.
AfterPartConversion(w, partSize, v) ==
    LET fi == w.s.fi
        i == w.s.part
        doc == w.s.batch[fi]
        rg == w.s.ranges[i]
        w1 == [w EXCEPT !.s.conv = NoConv,
                        !.s.files = (@ \ {PartOrigPath(doc, i)}) \cup {PartFinalPath(doc, i)},
                        !.s.parts = Append(@, [part |-> i, size |-> partSize,
                                               verified |-> v.valid,
                                               conformance |-> v.conformance,
                                               start |-> rg.start, end |-> rg.end,
                                               probed |-> rg.size])]
        w2 == sendLog(w1, PartLogKind(partSize), fi, i, 0, 0)
        parts == w2.s.parts
        allVerified == \A k \in DOMAIN parts : parts[k].verified
    IN  IF i < Len(w.s.ranges)
        THEN StartPart(w2, i + 1)
        ELSE NextFile([w2 EXCEPT !.s.results = Append(@,
                          [file |-> fi, wasSplit |-> TRUE,
                           outputSize |-> SumSizes(parts),
                           parts |-> Len(parts), verified |-> allVerified,
                           conformance |-> IF allVerified THEN parts[1].conformance ELSE "null",
                           partsDetail |-> parts])], fi)

\* The awaited convertToPdfAParallel returned: continue in the handler.  When
\* the session directory is gone, so is the output, and fs.statSync (lines 859
\* and 897) throws.
AfterConversion(w, partSize, v) ==
    IF ~w.s.dir
    THEN Catch(w, w.s.fi)
    ELSE IF w.s.pc = "conv" THEN AfterFullConversion(w, v)
    ELSE AfterPartConversion(w, partSize, v)

\* The awaited convertToPdfAParallel threw (lines 854-857, then 990-999).
\* When a chunk conversion failed, the conversions of the other chunks not yet
\* completed are still running.
ConversionThrew(w) ==
    LET c == w.s.conv
        stray == IF c.phase = "convert"
                 THEN [run |-> c.n - c.k - 1, k |-> c.k, n |-> c.n,
                       fi |-> w.s.fi, part |-> w.s.part]
                 ELSE NoStray
    IN  Catch([w EXCEPT !.s.stray = stray], w.s.fi)

\* The pages of the document the current conversion runs on.
ConvPages(s) ==
    IF s.pc = "conv"
    THEN s.batch[s.fi].pages
    ELSE s.ranges[s.part].end - s.ranges[s.part].start + 1

\* onProgress of the two calls (lines 849-851 and 889-893).
onProgress(w, fi, part, current, total) ==
    IF part = 0
    THEN sendLog(w, "chunk", fi, 0, current, total)
    ELSE IF total > 1 THEN sendLog(w, "partChunk", fi, part, current, total) ELSE w

\* Engine processes (qpdf, gs) of a session that are running, counted from
\* below: the awaited call of the handler has at least one (every conversion of
\* a chunk not yet ended, lines 640-646, is one), and the conversions left
\* running by a call that threw are still there.
EnginesRunning(s) ==
    s.stray.run
      + (IF s.pc \in {"conv", "partconv"}
         THEN (IF s.conv.phase = "convert" THEN s.conv.n - s.conv.k ELSE 1)
         ELSE IF s.pc \in {"ranges", "extract"} THEN 1 ELSE 0)

\* The modification ages are kept only for what exists.
Aged(s) ==
    [s EXCEPT !.dirAge = IF s.dir THEN @ ELSE -1,
              !.upAge = IF s.uploads = {} THEN -1 ELSE @]

Put(s, w) ==
    /\ sess' = [sess EXCEPT ![s] = Aged(w.s)]
    /\ cl' = w.cl
    /\ UNCHANGED <<req, sweep>>

\* ---- actions

\* The sweeper after its start-up sweep, and before it.
SweepStarted == [started |-> TRUE, since |-> 0]

SweepStarting == [started |-> FALSE, since |-> 0]

\* Session 1 receives a request of the set rs, every other session one of the
\* set others.
PipeInit(rs, others) ==
    /\ req \in {r \in [SessionIds -> rs \cup others] :
                   r[1] \in rs /\ \A s \in SessionIds \ {1} : r[s] \in others}
    /\ sess = [s \in SessionIds |-> NoSession]
    /\ cl = [c \in ClientIds |-> NoClient]
    /\ sweep = SweepStarted

PipeIdle ==
    /\ req = <<>>
    /\ sess = <<>>
    /\ cl = <<>>
    /\ sweep = SweepStarted

\* No call of execQpdf or verifyPdfA is modelled.
ToolIdle ==
    /\ qpdf = <<>>
    /\ verify = <<>>
    /\ legacy = <<>>

PipelineIdle == RangesIdle /\ ParIdle /\ PipeIdle

\* A variant of the request that answers without writing the table entry.
Request_Unregistered(s) ==
    /\ sess[s].pc = "none"
    /\ req[s] # NoRequest
    /\ sweep.started
    /\ LET s0 == [NoSession EXCEPT !.batch = req[s].batch, !.email = req[s].email,
                                   !.dir = TRUE, !.dirAge = 0,
                                   !.uploads = 1..Len(req[s].batch), !.upAge = 0]
       IN  Put(s, LoopHead([s |-> s0, cl |-> cl], 1))

\* POST /api/convert (lines 793-851): create the directories and the table
\* entry, answer with the session id, then run the loop up to its first await.
Request(s) ==
    /\ sess[s].pc = "none"
    /\ req[s] # NoRequest
    /\ sweep.started
    /\ LET batch == req[s].batch
           email == req[s].email
       IN
         LET s0 == [NoSession EXCEPT !.inTable = TRUE, !.batch = batch, !.email = email,
                                     !.dir = TRUE, !.dirAge = 0,
                                     !.uploads = 1..Len(batch), !.upAge = 0]
             w0 == [s |-> s0, cl |-> cl]
             w1 == IF email = "invalid" THEN sendLog(w0, "emailInvalid", 0, 0, 0, 0) ELSE w0
         IN  Put(s, LoopHead(w1, 1))

CurrentDoc(s) == sess[s].batch[sess[s].fi]

InConversion(s) == sess[s].pc \in {"conv", "partconv"}

\* getPageCount of convertToPdfAParallel returned (lines 599-636).
ConvCountDone(s) ==
    /\ InConversion(s)
    /\ sess[s].conv.phase = "count"
    /\ \E ok \in BOOLEAN :
         LET n == ChunkCount(ConvPages(sess[s]))
         IN  Put(s, IF ~ok
                    THEN ConversionThrew(World(s))
                    ELSE [World(s) EXCEPT !.s.conv = [phase |-> IF n = 0 THEN "single" ELSE "extract",
                                                      n |-> n, k |-> 0]])

\* The single gs pass returned (lines 602-604).
ConvSingleDone(s) ==
    /\ InConversion(s)
    /\ sess[s].conv.phase = "single"
    /\ \E ok \in BOOLEAN, partSize \in PartSizeChoices(CurrentDoc(s)),
          v \in VerificationChoices(CurrentDoc(s)) :
         Put(s, IF ok THEN AfterConversion(World(s), partSize, v)
                      ELSE ConversionThrew(World(s)))

\* Promise.all over the chunk extractions settled (lines 630-636).
ConvExtractDone(s) ==
    /\ InConversion(s)
    /\ sess[s].conv.phase = "extract"
    /\ \E ok \in BOOLEAN :
         Put(s, IF ok THEN [World(s) EXCEPT !.s.conv.phase = "convert"]
                      ELSE ConversionThrew(World(s)))

\* The gs conversion of one chunk ended (lines 640-646).
ConvChunkDone(s) ==
    /\ InConversion(s)
    /\ sess[s].conv.phase = "convert"
    /\ \E ok \in BOOLEAN :
         LET c == sess[s].conv
             w1 == onProgress(World(s), sess[s].fi, sess[s].part, c.k + 1, c.n)
         IN  Put(s, IF ~ok
                    THEN ConversionThrew(World(s))
                    ELSE [w1 EXCEPT !.s.conv.k = c.k + 1,
                                    !.s.conv.phase = IF c.k + 1 = c.n THEN "merge" ELSE "convert"])

\* The qpdf merge ended (line 665).
ConvMergeDone(s) ==
    /\ InConversion(s)
    /\ sess[s].conv.phase = "merge"
    /\ \E ok \in BOOLEAN :
         Put(s, IF ok THEN [World(s) EXCEPT !.s.conv.phase = "reconvert"]
                      ELSE ConversionThrew(World(s)))

\* The reconversion of the merged file ended (lines 669-678).
ConvReconvertDone(s) ==
    /\ InConversion(s)
    /\ sess[s].conv.phase = "reconvert"
    /\ \E ok \in BOOLEAN, partSize \in PartSizeChoices(CurrentDoc(s)),
          v \in VerificationChoices(CurrentDoc(s)) :
         Put(s, IF ok THEN AfterConversion(World(s), partSize, v)
                      ELSE ConversionThrew(World(s)))

\* A chunk conversion that was still running when the call threw ends: its
\* callback counts it and reports progress (lines 641-643).
StrayChunkDone(s) ==
    /\ sess[s].stray.run > 0
    /\ \E ok \in BOOLEAN :
         LET st == sess[s].stray
             w0 == [World(s) EXCEPT !.s.stray.run = st.run - 1]
         IN  Put(s, IF ok
                    THEN onProgress([w0 EXCEPT !.s.stray.k = st.k + 1],
                                    st.fi, st.part, st.k + 1, st.n)
                    ELSE w0)

\* findPageRangesForSize returned or threw (line 867).
RangesDone(s) ==
    /\ sess[s].pc = "ranges"
    /\ LET doc == sess[s].batch[sess[s].fi]
       IN  \/ Put(s, Catch(World(s), sess[s].fi))
           \/ \E probe \in Probes(doc) :
                /\ sess[s].dir
                /\ Put(s, AfterRanges(World(s),
                       findPageRangesForSize("current", probe, MAX_SIZE_BYTES,
                                             doc.size, doc.pages)))

\* The extraction of a part returned or threw (lines 876-880).
PartExtractDone(s) ==
    /\ sess[s].pc = "extract"
    /\ \E ok \in BOOLEAN :
         Put(s, IF ok /\ sess[s].dir /\ sess[s].fi \in sess[s].uploads
                THEN AfterPartExtraction(World(s))
                ELSE Catch(World(s), sess[s].fi))

\* sendConversionEmail returned or threw (lines 958-989).
EmailDone(s) ==
    /\ sess[s].pc = "email"
    /\ \E ok \in BOOLEAN :
         Put(s, Finish(sendLog(World(s), IF ok THEN "emailSent" ELSE "emailFailed", 0, 0, 0, 0)))

\* The timer of cleanupSession fires (lines 754-756).
Purge(s) ==
    /\ sess[s].timer >= SESSION_CLEANUP_DELAY
    /\ sess' = [sess EXCEPT ![s].inTable = FALSE, ![s].timer = -1, ![s].purged = TRUE]
    /\ UNCHANGED <<req, cl, sweep>>

\* Time passes: every running timer advances, and so does the time since a
\* session was marked done (age, kept up to the delay).
Tick ==
    /\ \E s \in SessionIds : sess[s].timer >= 0 /\ sess[s].timer < SESSION_CLEANUP_DELAY
    /\ sess' = [s \in SessionIds |->
                  [sess[s] EXCEPT
                     !.timer = IF @ >= 0 THEN Min(@ + TickMs, SESSION_CLEANUP_DELAY) ELSE @,
                     !.age = IF @ >= 0 THEN Min(@ + TickMs, SESSION_CLEANUP_DELAY) ELSE @]]
    /\ UNCHANGED <<req, cl, sweep>>

\* A variant of the subscription that attaches the observer to a done session too.
Subscribe_AttachWhenDone(c, s) ==
    /\ cl[c].state = "none"
    /\ IF ~sess[s].inTable
       THEN /\ cl' = [cl EXCEPT ![c] = [state |-> "notfound", session |-> s, received |-> <<>>]]
            /\ UNCHANGED sess
       ELSE /\ cl' = [cl EXCEPT ![c] = [state |-> "attached", session |-> s,
                                        received |-> sess[s].logs]]
            /\ sess' = [sess EXCEPT ![s].clients = @ \cup {c}]
    /\ UNCHANGED <<req, sweep>>

\* GET /api/progress/:sessionId (lines 1002-1035).
Subscribe(c, s) ==
    /\ cl[c].state = "none"
    /\ IF ~sess[s].inTable
       THEN /\ cl' = [cl EXCEPT ![c] = [state |-> "notfound", session |-> s, received |-> <<>>]]
            /\ UNCHANGED sess
       ELSE IF sess[s].done
       THEN /\ cl' = [cl EXCEPT ![c] = [state |-> "ended", session |-> s,
                                        received |-> sess[s].logs]]
            /\ UNCHANGED sess
       ELSE /\ cl' = [cl EXCEPT ![c] = [state |-> "attached", session |-> s,
                                        received |-> sess[s].logs]]
            /\ sess' = [sess EXCEPT ![s].clients = @ \cup {c}]
    /\ UNCHANGED <<req, sweep>>

\* A variant of the close handler that leaves the observer in the set.
Disconnect_KeepObserver(c) ==
    /\ cl[c].state = "attached"
    /\ cl' = [cl EXCEPT ![c].state = "closed"]
    /\ UNCHANGED <<sess, req, sweep>>

\* The observer's connection closes (lines 1032-1034).
Disconnect(c) ==
    /\ cl[c].state = "attached"
    /\ cl' = [cl EXCEPT ![c].state = "closed"]
    /\ sess' = [sess EXCEPT ![cl[c].session].clients = @ \ {c}]
    /\ UNCHANGED <<req, sweep>>

-----------------------------------------------------------------------------
(* Specifications *)

\* ---- /api/download/:sessionId and cleanupOldFiles

\* The temporary files the running convertToPdfAParallel call has written next
\* to its output path and not yet removed (lines 606-678): the chunks not yet
\* converted, the converted chunks and the merged intermediate.  The chunks
\* converted so far are taken to be the first k.
ConvTempFiles(s) ==
    IF s.pc \notin {"conv", "partconv"} \/ ~s.dir
    THEN {}
    ELSE LET d == IF s.pc = "conv" THEN "split" ELSE "converted"
             nm == s.batch[s.fi].name
             c == s.conv
             converted(n) == {<<d, nm, "chunk_pdfa", s.part, j>> : j \in 1..n}
         IN  CASE c.phase = "convert" ->
                    {<<d, nm, "chunk", s.part, j>> : j \in (c.k + 1)..c.n} \cup converted(c.k)
               [] c.phase = "merge" -> converted(c.n)
               [] c.phase = "reconvert" -> converted(c.n) \cup {<<d, nm, "merged", s.part, 0>>}
               [] OTHER -> {}

\* What is on disk below the session directory.
DiskFiles(s) == s.files \cup ConvTempFiles(s)

\* GET /api/download/:sessionId up to archive.finalize() (lines 1037-1080): 404
\* when the converted directory is missing or holds no .pdf entry; otherwise
\* every .pdf entry of the directory goes into the bundle.
Download(s) ==
    /\ sweep.started
    /\ sess[s].dl = "idle"
    /\ Len(sess[s].dlLog) < MaxDownloads
    /\ LET pdfFiles == {f \in DiskFiles(sess[s]) : f[1] = "converted"}
       IN  IF ~sess[s].dir \/ pdfFiles = {}
           THEN sess' = [sess EXCEPT ![s].dlLog = Append(@, "notfound")]
           ELSE sess' = [sess EXCEPT ![s].dl = "streaming", ![s].bundle = pdfFiles]
    /\ UNCHANGED <<req, cl, sweep>>

\* A variant of the end of the response that leaves the session directory.
DownloadFinish_KeepFiles(s) ==
    /\ sess[s].dl = "streaming"
    /\ sess' = [sess EXCEPT ![s] = [@ EXCEPT !.dl = "idle", !.dlLog = Append(@, "ok")]]
    /\ UNCHANGED <<req, cl, sweep>>

\* The response finished (lines 1082-1085): cleanupDir of the session directory.
DownloadFinish(s) ==
    /\ sess[s].dl = "streaming"
    /\ sess' = [sess EXCEPT ![s] = Aged([@ EXCEPT !.dl = "idle", !.dlLog = Append(@, "ok"),
                                                  !.dir = FALSE, !.files = {}])]
    /\ UNCHANGED <<req, cl, sweep>>

\* A variant of cleanupOldFiles that removes an entry from the age of one hour on.
cleanupOldFiles_FromOneHour(s) ==
    Aged([s EXCEPT !.dir = IF s.dirAge >= ONE_HOUR_MS THEN FALSE ELSE @,
                   !.files = IF s.dirAge >= ONE_HOUR_MS THEN {} ELSE @,
                   !.uploads = IF s.upAge >= ONE_HOUR_MS THEN {} ELSE @])

\* cleanupOldFiles (lines 761-783) on the entries of one session: its directory
\* in OUTPUT_DIR and its uploads in UPLOAD_DIR.
cleanupOldFiles(s) ==
    Aged([s EXCEPT !.dir = IF s.dirAge > ONE_HOUR_MS THEN FALSE ELSE @,
                   !.files = IF s.dirAge > ONE_HOUR_MS THEN {} ELSE @,
                   !.uploads = IF s.upAge > ONE_HOUR_MS THEN {} ELSE @])

\* The sweep at start-up (line 786) and the one of the interval timer (line 785).
Sweep ==
    /\ ~sweep.started \/ sweep.since >= SWEEP_INTERVAL_MS
    /\ sess' = [s \in SessionIds |-> cleanupOldFiles(sess[s])]
    /\ sweep' = SweepStarted
    /\ UNCHANGED <<req, cl>>

\* Time passes by QuantumMs: every entry on disk ages, every timer advances.
TimePasses ==
    /\ sweep.started
    /\ sweep.since < SWEEP_INTERVAL_MS
    /\ sweep' = [sweep EXCEPT !.since = @ + QuantumMs]
    /\ sess' = [s \in SessionIds |->
                  [sess[s] EXCEPT
                     !.dirAge = IF @ >= 0 THEN @ + QuantumMs ELSE @,
                     !.upAge = IF @ >= 0 THEN @ + QuantumMs ELSE @,
                     !.timer = IF @ >= 0 THEN Min(@ + QuantumMs, SESSION_CLEANUP_DELAY) ELSE @,
                     !.age = IF @ >= 0 THEN Min(@ + QuantumMs, SESSION_CLEANUP_DELAY) ELSE @]]
    /\ UNCHANGED <<req, cl>>

-----------------------------------------------------------------------------
(* execQpdf and the engine call of convertToPdfA *)

\* Texts are sequences of characters.  s.includes(needle):
Includes(hay, needle) ==
    \E i \in 1..(Len(hay) - Len(needle) + 1) : SubSeq(hay, i, i + Len(needle) - 1) = needle

\* 'operation succeeded with warnings'
SUCCEEDED_WITH_WARNINGS ==
    <<"o", "p", "e", "r", "a", "t", "i", "o", "n", " ", "s", "u", "c", "c", "e", "e",
      "d", "e", "d", " ", "w", "i", "t", "h", " ", "w", "a", "r", "n", "i", "n", "g",
      "s">>

\* 'WARNING:'
WARNING_MARK == <<"W", "A", "R", "N", "I", "N", "G", ":">>

\* What the engine can write on stderr, each text with whether it is one of
\* the known warning texts.
Stderrs ==
    {[text |-> <<>>, warns |-> FALSE],
     [text |-> <<"W", "A", "R", "N", "I", "N", "G", ":", " ", "x">>, warns |-> TRUE],
     [text |-> <<"q", "p", "d", "f", ":", " ", "o", "p", "e", "r", "a", "t", "i", "o",
                 "n", " ", "s", "u", "c", "c", "e", "e", "d", "e", "d", " ", "w", "i",
                 "t", "h", " ", "w", "a", "r", "n", "i", "n", "g", "s">>,
      warns |-> TRUE],
     [text |-> <<"a", " ", "W", "A", "R", "N", "I", "N", "G", ":", " ", "o", "p", "e",
                 "r", "a", "t", "i", "o", "n", " ", "s", "u", "c", "c", "e", "e", "d",
                 "e", "d", " ", "w", "i", "t", "h", " ", "w", "a", "r", "n", "i", "n",
                 "g", "s">>,
      warns |-> TRUE],
     [text |-> <<"w", "a", "r", "n", "i", "n", "g", ":", " ", "x">>, warns |-> FALSE],
     [text |-> <<"W", "A", "R", "N", "I", "N", "G", " ", "x">>, warns |-> FALSE],
     [text |-> <<"o", "p", "e", "r", "a", "t", "i", "o", "n", " ", "s", "u", "c", "c",
                 "e", "e", "d", "e", "d", " ", "w", "i", "t", "h", " ", "w", "a", "r",
                 "n", "i", "n", "g">>,
      warns |-> FALSE],
     [text |-> <<"e", "r", "r", "o", "r">>, warns |-> FALSE]}

Stdouts == {<<>>, <<"5">>}

\* Exit statuses: success, qpdf's status for errors and for warnings.
ExitCodes == {0, 2, 3}

EngineOutcomes ==
    {[code |-> c, stdout |-> o, stderr |-> e.text] : c \in ExitCodes, o \in Stdouts, e \in Stderrs}

Returned(stdout, stderr) == [returned |-> TRUE, stdout |-> stdout, stderr |-> stderr]

Threw == [returned |-> FALSE, stdout |-> <<>>, stderr |-> <<>>]

\* execFileAsync: resolves on exit status 0, rejects with the output otherwise.
execFileAsync(out) == IF out.code = 0 THEN Returned(out.stdout, out.stderr) ELSE Threw

\* A variant of execQpdf without the tolerance for warnings.
execQpdf_NoTolerance(out) == execFileAsync(out)

\* execQpdf (lines 409-426).
execQpdf(out) ==
    IF execFileAsync(out).returned
    THEN execFileAsync(out)
    ELSE IF (out.stdout # <<>> \/ out.stderr # <<>>)
            /\ (Includes(out.stderr, SUCCEEDED_WITH_WARNINGS) \/ Includes(out.stderr, WARNING_MARK))
    THEN Returned(out.stdout, out.stderr)
    ELSE Threw

\* The engine call of convertToPdfA (lines 583-587).
convertToPdfA(out) == execFileAsync(out)

QpdfInit ==
    qpdf \in {[engine |-> g, pc |-> "running", out |-> o, result |-> <<>>] :
                g \in {"qpdf", "gs"}, o \in EngineOutcomes}

\* The qpdf process ended and execQpdf settles.
ExecQpdfDone ==
    /\ qpdf.pc = "running"
    /\ qpdf.engine = "qpdf"
    /\ qpdf' = [qpdf EXCEPT !.pc = "done", !.result = execQpdf(qpdf.out)]
    /\ UNCHANGED <<verify, legacy>>

\* The gs process ended and convertToPdfA settles.
ConvertToPdfADone ==
    /\ qpdf.pc = "running"
    /\ qpdf.engine = "gs"
    /\ qpdf' = [qpdf EXCEPT !.pc = "done", !.result = convertToPdfA(qpdf.out)]
    /\ UNCHANGED <<verify, legacy>>

-----------------------------------------------------------------------------
(* verifyPdfA *)

\* The content of a file is a sequence of tokens: the two metadata keys (the
\* first also in upper case), a separator, a digit, a letter and a character
\* that is none of these.
PartKey == "pdfaid:part"

ConformanceKey == "pdfaid:conformance"

Keys == {PartKey, "PDFAID:PART", ConformanceKey}

Separators == {">"}

DigitTokens == {"1"}

LetterTokens == {"B"}

Tokens == Keys \cup Separators \cup DigitTokens \cup LetterTokens \cup {"<"}

\* toLowerCase and toUpperCase of one token or captured piece.
ToLower(x) ==
    CASE x = "PDFAID:PART" -> "pdfaid:part"
      [] x = "PDFAID" -> "pdfaid"
      [] x = "B" -> "b"
      [] OTHER -> x

ToUpper(x) ==
    CASE x = "pdfaid:part" -> "PDFAID:PART"
      [] x = "pdfaid:conformance" -> "PDFAID:CONFORMANCE"
      [] x = "pdfaid" -> "PDFAID"
      [] x = "b" -> "B"
      [] OTHER -> x

LowerAll(q) == [i \in 1..Len(q) |-> ToLower(q[i])]

UpperAll(q) == [i \in 1..Len(q) |-> ToUpper(q[i])]

\* The letters a key begins with, up to its colon.
KeyLetters(k) == IF k = "PDFAID:PART" THEN "PDFAID" ELSE "pdfaid"

\* The first index from i on whose token is not in the class (Len + 1 if none).
RECURSIVE RunEnd(_, _, _)
RunEnd(c, i, class) ==
    IF i > Len(c) \/ c[i] \notin class THEN i ELSE RunEnd(c, i + 1, class)

\* (\d+) from index j: the digits captured, <<>> when there is none.
CaptureDigits(c, j) == SubSeq(c, j, RunEnd(c, j, DigitTokens) - 1)

\* ([A-Za-z]+) from index j: the letters captured, which run into the letters
\* a following key begins with.
CaptureLetters(c, j) ==
    LET e == RunEnd(c, j, LetterTokens)
    IN  SubSeq(c, j, e - 1)
            \o (IF e <= Len(c) /\ c[e] \in Keys THEN <<KeyLetters(c[e])>> ELSE <<>>)

NoMatch == <<>>

\* content.match(/key[>"'\s=]*(capture)/i): the capture of the leftmost match
\* at or after index i, NoMatch when there is none.
RECURSIVE MatchFrom(_, _, _, _)
MatchFrom(c, key, letters, i) ==
    IF i > Len(c)
    THEN NoMatch
    ELSE LET j == RunEnd(c, i + 1, Separators)
             cap == IF letters THEN CaptureLetters(c, j) ELSE CaptureDigits(c, j)
         IN  IF ToLower(c[i]) = key /\ cap # <<>>
             THEN cap
             ELSE MatchFrom(c, key, letters, i + 1)

MaxContent == 5

RECURSIVE SeqsUpTo(_, _)
SeqsUpTo(S, n) ==
    IF n = 0 THEN {<<>>}
    ELSE LET shorter == SeqsUpTo(S, n - 1)
         IN  shorter \cup {Append(q, x) : q \in shorter, x \in S}

Contents == SeqsUpTo(Tokens, MaxContent)

\* A file that exists and can be read, and one that cannot.
Readable(content) == [readable |-> TRUE, content |-> content]

Unreadable == [readable |-> FALSE, content |-> <<>>]

Paths == {"out", "gone"}

\* fs.readFileSync(filePath) throws: no file at the path, or no permission.
ReadThrows(fs, path) == IF path \in DOMAIN fs THEN ~fs[path].readable ELSE TRUE

Null == "null"

Invalid == [threw |-> FALSE, valid |-> FALSE, conformance |-> Null]

\* A variant of the verdict that leaves the level in upper case.
Verdict_UpperLevel(content) ==
    LET partMatch == MatchFrom(content, PartKey, FALSE, 1)
        confMatch == MatchFrom(content, ConformanceKey, TRUE, 1)
    IN  IF partMatch # NoMatch
        THEN [threw |-> FALSE, valid |-> TRUE,
              conformance |-> <<"PDF/A-">> \o partMatch
                  \o (IF confMatch # NoMatch THEN UpperAll(confMatch) ELSE <<"B">>)]
        ELSE Invalid

\* The try block of verifyPdfA (lines 691-703) on the content read.
Verdict(content) ==
    LET partMatch == MatchFrom(content, PartKey, FALSE, 1)
        confMatch == MatchFrom(content, ConformanceKey, TRUE, 1)
    IN  IF partMatch # NoMatch
        THEN [threw |-> FALSE, valid |-> TRUE,
              conformance |-> <<"PDF/A-">> \o partMatch
                  \o LowerAll(IF confMatch # NoMatch THEN UpperAll(confMatch) ELSE <<"B">>)]
        ELSE Invalid

\* A variant of verifyPdfA without the catch.
verifyPdfA_NoCatch(fs, path) ==
    IF ReadThrows(fs, path)
    THEN [threw |-> TRUE, valid |-> FALSE, conformance |-> Null]
    ELSE Verdict(fs[path].content)

\* verifyPdfA (lines 689-707).
verifyPdfA(fs, path) ==
    IF ReadThrows(fs, path) THEN Invalid ELSE Verdict(fs[path].content)

\* The files verifyPdfA can be called on.
Files == {Readable(c) : c \in Contents} \cup {Unreadable}

\* A file at "out", readable or not, and nothing at "gone"; verifyPdfA is called
\* on one of the two paths.
VerifyInit ==
    \E file \in Files, path \in Paths :
        verify = [fs |-> [p \in {"out"} |-> file], fs0 |-> [p \in {"out"} |-> file],
                  path |-> path, pc |-> "called", result |-> <<>>]

\* verifyPdfA returns on a file it could read.
VerifyRead ==
    /\ verify.pc = "called"
    /\ ~ReadThrows(verify.fs, verify.path)
    /\ verify' = [verify EXCEPT !.pc = "done", !.result = verifyPdfA(verify.fs, verify.path)]
    /\ UNCHANGED <<qpdf, legacy>>

\* verifyPdfA returns on a file it could not read.
VerifyUnread ==
    /\ verify.pc = "called"
    /\ ReadThrows(verify.fs, verify.path)
    /\ verify' = [verify EXCEPT !.pc = "done", !.result = verifyPdfA(verify.fs, verify.path)]
    /\ UNCHANGED <<qpdf, legacy>>

-----------------------------------------------------------------------------
(* /api/convert of the revision that splits the converted document with
   splitToFitSize *)

\* Files of the session directory of that revision.
LegacyFullPath == <<"split", "pdfa_full", 0>>

LegacyTmpPath(n) == <<"converted", "tmp", n>>

LegacyPartPath(i) == <<"converted", "parte", i>>

LegacyFinalPath == <<"converted", "pdf", 0>>

LegacyNamesPath == <<"root", "original_names", 0>>

\* bestPath = ""
NoPath == <<"", "", 0>>

\* tryExtract: a further temporary file holds the extraction of start..end.
tryExtract(st, start, end) ==
    [counter |-> st.counter + 1, files |-> st.files \cup {LegacyTmpPath(st.counter + 1)}]

\* The binary search of findMaxPages: the file of the best fitting probe is
\* kept, every other probe file is unlinked.
RECURSIVE LegacySearch(_, _, _, _, _, _, _, _)
LegacySearch(probe, maxSize, st, start, lo, hi, bestEnd, bestPath) ==
    IF lo <= hi
    THEN LET mid == (lo + hi) \div 2
             t == tryExtract(st, start, mid)
             p == LegacyTmpPath(t.counter)
         IN  IF extractSize(probe, start, mid) <= maxSize
             THEN LegacySearch(probe, maxSize,
                               [t EXCEPT !.files = @ \ (IF bestPath # NoPath THEN {bestPath} ELSE {})],
                               start, mid + 1, hi, mid, p)
             ELSE LegacySearch(probe, maxSize, [t EXCEPT !.files = @ \ {p}],
                               start, lo, mid - 1, bestEnd, bestPath)
    ELSE [st |-> st, bestEnd |-> bestEnd, bestPath |-> bestPath]

\* findMaxPages(start, maxEnd): the end page of the part and its file.
findMaxPages(probe, maxSize, st, start, maxEnd) ==
    LET t == tryExtract(st, start, maxEnd)
        p == LegacyTmpPath(t.counter)
        u == [t EXCEPT !.files = @ \ {p}]
        single == tryExtract(u, start, start)
        r == LegacySearch(probe, maxSize, u, start, start, maxEnd - 1, start, NoPath)
        again == tryExtract(r.st, start, start)
    IN  IF extractSize(probe, start, maxEnd) <= maxSize
        THEN [st |-> t, endPage |-> maxEnd, filePath |-> p]
        ELSE IF start = maxEnd
        THEN [st |-> single, endPage |-> start, filePath |-> LegacyTmpPath(single.counter)]
        ELSE IF r.bestPath = NoPath
        THEN [st |-> again, endPage |-> start, filePath |-> LegacyTmpPath(again.counter)]
        ELSE [st |-> r.st, endPage |-> r.bestEnd, filePath |-> r.bestPath]

\* The loop of splitToFitSize over the pages.
RECURSIVE LegacyPartsFrom(_, _, _, _, _, _)
LegacyPartsFrom(probe, maxSize, st, totalPages, currentPage, parts) ==
    IF currentPage <= totalPages
    THEN LET m == findMaxPages(probe, maxSize, st, currentPage, totalPages)
         IN  LegacyPartsFrom(probe, maxSize, m.st, totalPages, m.endPage + 1,
                             Append(parts, m.filePath))
    ELSE [parts |-> parts, files |-> st.files]

\* splitToFitSize(inputPath, outputDir, baseName, maxSize): the paths of the
\* parts and the files of the session directory afterwards.
splitToFitSize(probe, maxSize, fileSize, totalPages, files) ==
    IF totalPages <= 1 \/ fileSize <= maxSize
    THEN [parts |-> <<LegacyFullPath>>, files |-> files]
    ELSE LegacyPartsFrom(probe, maxSize, [counter |-> 0, files |-> files], totalPages, 1, <<>>)

\* The loop over parts: each part is renamed to its final name unless it has
\* it already.
RECURSIVE LegacyRenameParts(_, _, _)
LegacyRenameParts(parts, i, files) ==
    IF i <= Len(parts)
    THEN LegacyRenameParts(parts, i + 1,
                           IF parts[i] # LegacyPartPath(i)
                           THEN (files \ {parts[i]}) \cup {LegacyPartPath(i)}
                           ELSE files)
    ELSE files

\* The largest document of the requests of that revision.
LegacyPages == 3

\* A request of one file: its page count, the size of its conversion and the
\* sizes of the probe extractions.
LegacyInit ==
    \E pages \in 1..LegacyPages, size \in {MAX_SIZE_BYTES, MAX_SIZE_BYTES + 1},
       probe \in [ProbePairs(LegacyPages) -> ProbeSizes] :
        legacy = [pages |-> pages, size |-> size, probe |-> probe, pc |-> "convert",
                  dir |-> TRUE, files |-> {}, upload |-> TRUE, parts |-> 0,
                  wasSplit |-> FALSE, status |-> 0, threw |-> "none"]

\* The catch of the handler: the session directory and the upload are removed
\* and the request is answered 500.
LegacyCatch(l, cause) ==
    [l EXCEPT !.pc = "error", !.dir = FALSE, !.files = {}, !.upload = FALSE,
              !.status = 500, !.threw = cause]

\* The end of the iteration and of the handler: the upload is unlinked, the
\* names file is written and the request is answered with the results.
LegacyRespond(l) ==
    [l EXCEPT !.pc = "ok", !.upload = FALSE, !.files = @ \cup {LegacyNamesPath},
              !.status = 200]

\* The split branch once splitToFitSize has returned: the parts are renamed
\* and verified, then fs.unlinkSync(tempConvertedPath) throws when the full
\* conversion is not there any more.
LegacyAfterSplit(l, r) ==
    LET files == LegacyRenameParts(r.parts, 1, r.files)
    IN  IF LegacyFullPath \notin files
        THEN LegacyCatch(l, "unlink")
        ELSE LegacyRespond([l EXCEPT !.files = files \ {LegacyFullPath},
                                     !.parts = Len(r.parts), !.wasSplit = TRUE])

\* convertToPdfA ends: it throws, or the full conversion exists; a conversion
\* within the ceiling is renamed to the output, a larger one is split.
LegacyConvertDone ==
    /\ legacy # <<>>
    /\ legacy.pc = "convert"
    /\ \E ok \in BOOLEAN :
         legacy' = IF ~ok
                   THEN LegacyCatch(legacy, "gs")
                   ELSE IF legacy.size > MAX_SIZE_BYTES
                   THEN [legacy EXCEPT !.pc = "split", !.files = {LegacyFullPath}]
                   ELSE LegacyRespond([legacy EXCEPT !.files = {LegacyFinalPath}, !.parts = 1])
    /\ UNCHANGED <<qpdf, verify>>

\* splitToFitSize ends: a qpdf call of it throws, or it returns its parts and
\* the split branch runs to its end.
LegacySplitDone ==
    /\ legacy # <<>>
    /\ legacy.pc = "split"
    /\ \E ok \in BOOLEAN :
         legacy' = IF ~ok
                   THEN LegacyCatch(legacy, "qpdf")
                   ELSE LegacyAfterSplit(legacy,
                            splitToFitSize(legacy.probe, MAX_SIZE_BYTES, legacy.size,
                                           legacy.pages, legacy.files))
    /\ UNCHANGED <<qpdf, verify>>

-----------------------------------------------------------------------------
vars == <<rangeVars, parVars, pipeVars, toolVars>>

NextRanges ==
    \/ FindReturnSingle /\ UNCHANGED <<parVars, pipeVars, toolVars>>
    \/ FindEnterLoop /\ UNCHANGED <<parVars, pipeVars, toolVars>>
    \/ FindIterate /\ UNCHANGED <<parVars, pipeVars, toolVars>>
    \/ FindReturn /\ UNCHANGED <<parVars, pipeVars, toolVars>>

InitRanges == RangesInit /\ ParIdle /\ PipeIdle /\ ToolIdle

SpecRanges == InitRanges /\ [][NextRanges]_vars

\* The binary-search revision on the documents of MonotoneInit.
BinaryInit ==
    /\ rRev = "binary"
    /\ rTotalPages \in 1..LongPages
    /\ \E pages \in PageSizeLists(rTotalPages) :
          /\ rFileSize = SumPages(pages, 1, rTotalPages)
          /\ rProbe = AdditiveProbe(pages)
    /\ rPc = "start"
    /\ rCurrentPage = 1
    /\ rRanges = <<>>
    /\ rProbeLog = <<>>

InitBinary == BinaryInit /\ ParIdle /\ PipeIdle /\ ToolIdle

SpecBinary == InitBinary /\ [][NextRanges]_vars

\* Every call of the partitioner goes on: each probe returns.
FairRanges == SpecRanges /\ WF_vars(NextRanges)

InitMonotone == MonotoneInit /\ ParIdle /\ PipeIdle /\ ToolIdle

SpecMonotone == InitMonotone /\ [][NextRanges]_vars

NextParallel ==
    \/ ParCountDone /\ UNCHANGED <<rangeVars, pipeVars, toolVars>>
    \/ ParSingleDone /\ UNCHANGED <<rangeVars, pipeVars, toolVars>>
    \/ (\E i \in 1..NUM_WORKERS : ParExtractDone(i)) /\ UNCHANGED <<rangeVars, pipeVars, toolVars>>
    \/ (\E i \in 1..NUM_WORKERS : ParConvertDone(i)) /\ UNCHANGED <<rangeVars, pipeVars, toolVars>>
    \/ ParMergeDone /\ UNCHANGED <<rangeVars, pipeVars, toolVars>>
    \/ ParReconvertDone /\ UNCHANGED <<rangeVars, pipeVars, toolVars>>

InitParallel == ParInit /\ RangesIdle /\ PipeIdle /\ ToolIdle

SpecParallel == InitParallel /\ [][NextParallel]_vars

NextBatch ==
    \/ (\E s \in SessionIds : Request(s)) /\ UNCHANGED <<rangeVars, parVars, toolVars>>
    \/ (\E s \in SessionIds : ConvCountDone(s)) /\ UNCHANGED <<rangeVars, parVars, toolVars>>
    \/ (\E s \in SessionIds : ConvSingleDone(s)) /\ UNCHANGED <<rangeVars, parVars, toolVars>>
    \/ (\E s \in SessionIds : ConvExtractDone(s)) /\ UNCHANGED <<rangeVars, parVars, toolVars>>
    \/ (\E s \in SessionIds : ConvChunkDone(s)) /\ UNCHANGED <<rangeVars, parVars, toolVars>>
    \/ (\E s \in SessionIds : ConvMergeDone(s)) /\ UNCHANGED <<rangeVars, parVars, toolVars>>
    \/ (\E s \in SessionIds : ConvReconvertDone(s)) /\ UNCHANGED <<rangeVars, parVars, toolVars>>
    \/ (\E s \in SessionIds : StrayChunkDone(s)) /\ UNCHANGED <<rangeVars, parVars, toolVars>>
    \/ (\E s \in SessionIds : RangesDone(s)) /\ UNCHANGED <<rangeVars, parVars, toolVars>>
    \/ (\E s \in SessionIds : PartExtractDone(s)) /\ UNCHANGED <<rangeVars, parVars, toolVars>>
    \/ (\E s \in SessionIds : EmailDone(s)) /\ UNCHANGED <<rangeVars, parVars, toolVars>>
    \/ (\E s \in SessionIds : Purge(s)) /\ UNCHANGED <<rangeVars, parVars, toolVars>>
    \/ Tick /\ UNCHANGED <<rangeVars, parVars, toolVars>>

Next ==
    \/ NextBatch
    \/ (\E c \in ClientIds, s \in SessionIds : Subscribe(c, s)) /\ UNCHANGED <<rangeVars, parVars, toolVars>>
    \/ (\E c \in ClientIds : Disconnect(c)) /\ UNCHANGED <<rangeVars, parVars, toolVars>>

Init == PipeInit(StreamRequests, {NoRequest}) /\ RangesIdle /\ ParIdle /\ ToolIdle

Spec == Init /\ [][Next]_vars

InitBatch == PipeInit(BatchRequests, {NoRequest}) /\ RangesIdle /\ ParIdle /\ ToolIdle

SpecBatch == InitBatch /\ [][NextBatch]_vars

\* Every awaited call of a handler returns, and timers fire.
HandlerStep(s) ==
    \/ ConvCountDone(s) \/ ConvSingleDone(s) \/ ConvExtractDone(s) \/ ConvChunkDone(s)
    \/ ConvMergeDone(s) \/ ConvReconvertDone(s) \/ StrayChunkDone(s) \/ RangesDone(s)
    \/ PartExtractDone(s) \/ EmailDone(s)

Fairness ==
    /\ \A s \in SessionIds : WF_vars(Request(s) /\ UNCHANGED <<rangeVars, parVars, toolVars>>)
    /\ \A s \in SessionIds : WF_vars(HandlerStep(s) /\ UNCHANGED <<rangeVars, parVars, toolVars>>)
    /\ \A s \in SessionIds : WF_vars(Purge(s) /\ UNCHANGED <<rangeVars, parVars, toolVars>>)
    /\ WF_vars(Tick /\ UNCHANGED <<rangeVars, parVars, toolVars>>)

FairSpec == Init /\ [][Next]_vars /\ Fairness

\* Several sessions at once: session 1 as in the stream specification, the
\* others convert one small document.
TableRequests == {[batch |-> <<Doc("a", 1, MAX_SIZE_BYTES, 1, FALSE)>>, email |-> "none"]}

InitTable == PipeInit(StreamRequests, TableRequests) /\ RangesIdle /\ ParIdle /\ ToolIdle

FairTable == InitTable /\ [][NextBatch]_vars /\ Fairness

\* Retrievals next to conversions.
DownloadRequests ==
    {[batch |-> <<Doc("b", MIN_PAGES_FOR_PARALLEL + 1, MAX_SIZE_BYTES + 1,
                      MIN_PAGES_FOR_PARALLEL, FALSE)>>,
      email |-> "valid"],
     [batch |-> <<Doc("a", 1, MAX_SIZE_BYTES, 1, FALSE), Doc("b", 2, MAX_SIZE_BYTES + 1, 1, FALSE)>>,
      email |-> "none"]}

NextDownload ==
    \/ NextBatch
    \/ (\E s \in SessionIds : Download(s)) /\ UNCHANGED <<rangeVars, parVars, toolVars>>
    \/ (\E s \in SessionIds : DownloadFinish(s)) /\ UNCHANGED <<rangeVars, parVars, toolVars>>

InitDownload == PipeInit(DownloadRequests, {NoRequest}) /\ RangesIdle /\ ParIdle /\ ToolIdle

SpecDownload == InitDownload /\ [][NextDownload]_vars

\* Subscriptions and retrievals on sessions that exist, that were purged and
\* that never existed (those without a request).
NextLookup ==
    \/ (\E s \in SessionIds : Request(s)) /\ UNCHANGED <<rangeVars, parVars, toolVars>>
    \/ (\E s \in SessionIds : ConvCountDone(s)) /\ UNCHANGED <<rangeVars, parVars, toolVars>>
    \/ (\E s \in SessionIds : ConvSingleDone(s)) /\ UNCHANGED <<rangeVars, parVars, toolVars>>
    \/ (\E s \in SessionIds : Purge(s)) /\ UNCHANGED <<rangeVars, parVars, toolVars>>
    \/ Tick /\ UNCHANGED <<rangeVars, parVars, toolVars>>
    \/ (\E c \in ClientIds, s \in SessionIds : Subscribe(c, s))
          /\ UNCHANGED <<rangeVars, parVars, toolVars>>
    \/ (\E c \in ClientIds : Disconnect(c)) /\ UNCHANGED <<rangeVars, parVars, toolVars>>
    \/ (\E s \in SessionIds : Download(s)) /\ UNCHANGED <<rangeVars, parVars, toolVars>>
    \/ (\E s \in SessionIds : DownloadFinish(s)) /\ UNCHANGED <<rangeVars, parVars, toolVars>>

InitLookup == PipeInit(TableRequests, {NoRequest}) /\ RangesIdle /\ ParIdle /\ ToolIdle

SpecLookup == InitLookup /\ [][NextLookup]_vars

\* The sweeper next to conversions.  What a run of the server finds on disk
\* from the run before: a session directory with one output, and an upload,
\* last modified age ago.
Leftover(age) ==
    [NoSession EXCEPT !.dir = TRUE, !.dirAge = age, !.uploads = {1}, !.upAge = age,
                      !.files = {FinalPath(Doc("z", 1, MAX_SIZE_BYTES, 1, FALSE))}]

LeftoverAges == {0, ONE_HOUR_MS, ONE_HOUR_MS + 1}

SweepRequests ==
    {[batch |-> b, email |-> "none"] : b \in UNION {[1..n -> PlainDocs] : n \in 1..2}}

InitSweep ==
    /\ req \in {r \in [SessionIds -> SweepRequests \cup {NoRequest}] :
                   r[1] \in SweepRequests /\ \A s \in SessionIds \ {1} : r[s] = NoRequest}
    /\ sess \in {f \in [SessionIds -> {NoSession} \cup {Leftover(a) : a \in LeftoverAges}] :
                    f[1] = NoSession /\ \A s \in SessionIds \ {1} : f[s] # NoSession}
    /\ cl = [c \in ClientIds |-> NoClient]
    /\ sweep = SweepStarting
    /\ RangesIdle /\ ParIdle /\ ToolIdle

NextSweep ==
    \/ (\E s \in SessionIds : Request(s)) /\ UNCHANGED <<rangeVars, parVars, toolVars>>
    \/ (\E s \in SessionIds : ConvCountDone(s)) /\ UNCHANGED <<rangeVars, parVars, toolVars>>
    \/ (\E s \in SessionIds : ConvSingleDone(s)) /\ UNCHANGED <<rangeVars, parVars, toolVars>>
    \/ (\E s \in SessionIds : RangesDone(s)) /\ UNCHANGED <<rangeVars, parVars, toolVars>>
    \/ (\E s \in SessionIds : PartExtractDone(s)) /\ UNCHANGED <<rangeVars, parVars, toolVars>>
    \/ (\E s \in SessionIds : Download(s)) /\ UNCHANGED <<rangeVars, parVars, toolVars>>
    \/ (\E s \in SessionIds : DownloadFinish(s)) /\ UNCHANGED <<rangeVars, parVars, toolVars>>
    \/ TimePasses /\ UNCHANGED <<rangeVars, parVars, toolVars>>
    \/ Sweep /\ UNCHANGED <<rangeVars, parVars, toolVars>>

SpecSweep == InitSweep /\ [][NextSweep]_vars

\* The chunk creation of convertToPdfAParallel on documents of every page
\* count up to MaxChunkPages.
ChunkInit ==
    /\ pTotalPages \in 1..MaxChunkPages
    /\ pPc = "count"
    /\ pChunks = <<>>
    /\ pExtract = <<>>
    /\ pConvert = <<>>
    /\ pFiles = {}
    /\ pCompleted = 0
    /\ pProgress = <<>>
    /\ pOutOfOrder = FALSE
    /\ pMergeArgs = <<>>

InitChunks == ChunkInit /\ RangesIdle /\ PipeIdle /\ ToolIdle

NextChunks == ParCountDone /\ UNCHANGED <<rangeVars, pipeVars, toolVars>>

SpecChunks == InitChunks /\ [][NextChunks]_vars

\* Calls of the engines.
NextQpdf ==
    \/ ExecQpdfDone /\ UNCHANGED <<rangeVars, parVars, pipeVars>>
    \/ ConvertToPdfADone /\ UNCHANGED <<rangeVars, parVars, pipeVars>>

InitQpdf == QpdfInit /\ verify = <<>> /\ legacy = <<>> /\ PipelineIdle

SpecQpdf == InitQpdf /\ [][NextQpdf]_vars

\* Calls of verifyPdfA.
NextVerify ==
    \/ VerifyRead /\ UNCHANGED <<rangeVars, parVars, pipeVars>>
    \/ VerifyUnread /\ UNCHANGED <<rangeVars, parVars, pipeVars>>

InitVerify == VerifyInit /\ qpdf = <<>> /\ legacy = <<>> /\ PipelineIdle

SpecVerify == InitVerify /\ [][NextVerify]_vars

\* Requests to the revision that splits with splitToFitSize.
NextLegacy ==
    \/ LegacyConvertDone /\ UNCHANGED <<rangeVars, parVars, pipeVars>>
    \/ LegacySplitDone /\ UNCHANGED <<rangeVars, parVars, pipeVars>>

InitLegacy == LegacyInit /\ qpdf = <<>> /\ verify = <<>> /\ PipelineIdle

SpecLegacy == InitLegacy /\ [][NextLegacy]_vars

-----------------------------------------------------------------------------
(* Properties of findPageRangesForSize, checked under SpecRanges *)

\* The ranges emitted so far start at page 1, lie inside the document and each
\* starts one page after the end of the one before it.
Contiguous(ranges, totalPages) ==
    /\ \A i \in DOMAIN ranges :
         1 <= ranges[i].start /\ ranges[i].start <= ranges[i].end /\ ranges[i].end <= totalPages
    /\ ranges # <<>> => ranges[1].start = 1
    /\ \A i \in DOMAIN ranges : i > 1 => ranges[i].start = ranges[i - 1].end + 1

\* The ranges cover pages 1..totalPages exactly once in ascending order.
Covers(ranges, totalPages) ==
    /\ ranges # <<>>
    /\ Contiguous(ranges, totalPages)
    /\ Last(ranges).end = totalPages

\* C2: for every document of at least one page and every assignment of probe
\* sizes, in both revisions, the list findPageRangesForSize returns is
\* non-empty, every range has 1 <= start <= end <= totalPages, the first
\* starts at page 1, the last ends at totalPages and each starts at the end
\* of the previous one plus 1; the list built so far has the same shape at
\* every iteration, and the stepwise run returns what the function yields.
C2_RangesCoverDocument ==
    rTotalPages >= 1 =>
        /\ Contiguous(rRanges, rTotalPages)
        /\ rPc = "returned" =>
              /\ Covers(rRanges, rTotalPages)
              /\ rRanges = findPageRangesForSize(rRev, rProbe, MAX_SIZE_BYTES,
                                                 rFileSize, rTotalPages)

\* A run returned several ranges, one of them a single page over the ceiling
\* and one of several pages.
C2_Witness ==
    /\ rPc = "returned"
    /\ rTotalPages = MaxPages
    /\ Len(rRanges) >= 2
    /\ \E i \in DOMAIN rRanges : rRanges[i].start = rRanges[i].end /\ rRanges[i].size > MAX_SIZE_BYTES
    /\ \E i \in DOMAIN rRanges : rRanges[i].start < rRanges[i].end

-----------------------------------------------------------------------------
(* Properties of convertToPdfAParallel, checked under SpecParallel *)

TempKinds == {"chunk", "converted", "merged"}

\* C9: once convertToPdfAParallel has thrown, no extracted chunk, no converted
\* chunk and no merged intermediate of the call exists, whatever the sibling
\* processes still running do afterwards.
C9_NoTempFileAfterThrow ==
    pPc = "threw" => \A f \in pFiles : f[1] \notin TempKinds

\* C10: the page list handed to the merge names every chunk exactly once in
\* ascending page-range order, whatever the order in which the conversions
\* ended, and the merge is started only when every chunk conversion has
\* completed successfully.
C10_MergeInPageOrder ==
    /\ pMergeArgs # <<>> =>
          /\ Len(pMergeArgs) = Len(pChunks)
          /\ {pMergeArgs[k] : k \in DOMAIN pMergeArgs} = DOMAIN pChunks
          /\ \A k \in DOMAIN pMergeArgs :
                k > 1 => pChunks[pMergeArgs[k - 1]].end < pChunks[pMergeArgs[k]].start
    /\ (pMergeArgs # <<>> \/ pPc \in {"merge", "reconvert"}) =>
          /\ DOMAIN pConvert = DOMAIN pChunks
          /\ \A i \in DOMAIN pConvert : pConvert[i] = "ok"
          /\ pCompleted = Len(pChunks)

\* The merge was started after a chunk conversion had ended before that of a
\* chunk of lower pages.
C10_Witness ==
    /\ pPc = "merge"
    /\ pOutOfOrder
    /\ Len(pMergeArgs) = NUM_WORKERS

\* C11: when the call produced more than one chunk, the file at outputPath is
\* written only by the conversion pass run on the merged intermediate, which
\* starts only once the merge has completed; the call returns with the output
\* of that pass and without the merged intermediate.
C11_OutputIsReconvertedMerge ==
    /\ [](Len(pChunks) > 1 =>
            /\ pPc = "reconvert" => (MergedFile \in pFiles /\ pMergeArgs # <<>>
                                        /\ OutputFile \notin pFiles)
            /\ pPc = "returned" => (OutputFile \in pFiles /\ MergedFile \notin pFiles)
            /\ OutputFile \in pFiles => pPc = "returned")
    /\ [][(Len(pChunks) > 1 /\ OutputFile \notin pFiles /\ OutputFile \in pFiles')
             => (pPc = "reconvert" /\ pPc' = "returned")]_vars

\* A call on several chunks returned with its output.
C11_Witness ==
    /\ pPc = "returned"
    /\ Len(pChunks) = NUM_WORKERS
    /\ OutputFile \in pFiles

-----------------------------------------------------------------------------
(* Properties of /api/convert, checked under SpecBatch *)

Log(s) == sess[s].logs

TerminalIndexes(s) == {i \in DOMAIN Log(s) : IsTerminal(Log(s)[i])}

ErrorIndexes(s) == {i \in DOMAIN Log(s) : Log(s)[i][1] = "error"}

ResultIndexes(s) == {i \in DOMAIN Log(s) : Log(s)[i][1] = "result"}

ResultPublished(s) == ResultIndexes(s) # {}

HasError(s) == ErrorIndexes(s) # {}

\* A part is within the ceiling, or is a single page whose own extraction
\* already exceeds it (a one-page document reaches the split branch only when
\* its conversion exceeds the ceiling).
PartWithinCeiling(doc, p) ==
    \/ p.size <= MAX_SIZE_BYTES
    \/ p.start = p.end /\ (p.probed > MAX_SIZE_BYTES \/ doc.pages = 1)

\* C1: in a published result every output file, the single output of a file
\* that was not split and each part of a file that was, is at most
\* MAX_SIZE_BYTES, except a single-page part whose own extraction already
\* exceeds the ceiling; for every assignment of probe and part sizes.
C1_OutputsWithinCeiling ==
    \A s \in SessionIds :
        ResultPublished(s) =>
            \A k \in DOMAIN sess[s].results :
                LET r == sess[s].results[k]
                IN  IF r.wasSplit
                    THEN \A j \in DOMAIN r.partsDetail :
                             PartWithinCeiling(sess[s].batch[r.file], r.partsDetail[j])
                    ELSE r.outputSize <= MAX_SIZE_BYTES

\* C4: when a step of a file throws, the log holds exactly one error event and
\* no result event, nothing of a later file was logged or recorded, and once
\* the session is marked done (in the same step) the session directory, its
\* files and every upload of the batch are gone.
C4_FailureCleansUp ==
    \A s \in SessionIds :
        /\ HasError(s) <=> sess[s].failed # 0
        /\ HasError(s) =>
              /\ Cardinality(ErrorIndexes(s)) = 1
              /\ ~ResultPublished(s)
              /\ sess[s].done /\ sess[s].pc = "end"
              /\ ~sess[s].dir
              /\ sess[s].files = {}
              /\ sess[s].uploads = {}
              /\ \A i \in DOMAIN Log(s) : Log(s)[i][3] <= sess[s].failed
              /\ \A k \in DOMAIN sess[s].results : sess[s].results[k].file < sess[s].failed

\* File 2 of a batch of three failed after file 1 was converted.
C4_Witness ==
    \E s \in SessionIds :
        /\ sess[s].done
        /\ ErrorEvent(2) \in Range(Log(s))
        /\ Len(sess[s].batch) = 3
        /\ Len(sess[s].results) = 1

\* The warning for part i of file fi is in the log, before the result event if any.
WarnedBeforeResult(s, fi, i) ==
    \E a \in DOMAIN Log(s) :
        /\ Log(s)[a] = LogEvent("warn", fi, i, 0, 0)
        /\ \A b \in ResultIndexes(s) : a < b

\* C8: a part over the ceiling is reported by a warning log event before the
\* result event, every range of a split file is listed as a part of its
\* result (the over-ceiling ones with their size), and a batch none of whose
\* steps threw ends with the result event and without an error event.
C8_OverCeilingPartIsWarned ==
    \A s \in SessionIds :
        /\ \A j \in DOMAIN sess[s].parts :
              sess[s].parts[j].size > MAX_SIZE_BYTES => WarnedBeforeResult(s, sess[s].fi, j)
        /\ \A k \in DOMAIN sess[s].results :
              LET r == sess[s].results[k]
              IN  r.wasSplit =>
                    /\ r.parts = Len(r.partsDetail)
                    /\ r.parts = Cardinality({a \in DOMAIN Log(s) :
                                     Log(s)[a][2] = "partStart" /\ Log(s)[a][3] = r.file})
                    /\ \A j \in DOMAIN r.partsDetail :
                          /\ r.partsDetail[j].part = j
                          /\ r.partsDetail[j].size > MAX_SIZE_BYTES
                                => WarnedBeforeResult(s, r.file, j)
        /\ \A a \in DOMAIN Log(s) :
              (Log(s)[a][2] = "warn" /\ ResultPublished(s)) =>
                 \E k \in DOMAIN sess[s].results :
                    /\ sess[s].results[k].file = Log(s)[a][3]
                    /\ sess[s].results[k].partsDetail[Log(s)[a][4]].size > MAX_SIZE_BYTES
        /\ (sess[s].done /\ sess[s].failed = 0) => (ResultPublished(s) /\ ~HasError(s))

\* A result lists a file split in several parts, one of them over the ceiling.
C8_Witness ==
    \E s \in SessionIds :
        /\ ResultPublished(s)
        /\ \E k \in DOMAIN sess[s].results :
              /\ Len(sess[s].results[k].partsDetail) >= 2
              /\ \E j \in DOMAIN sess[s].results[k].partsDetail :
                    sess[s].results[k].partsDetail[j].size > MAX_SIZE_BYTES

-----------------------------------------------------------------------------
(* Properties of the session table and the progress stream, checked under Spec,
   FairSpec and FairTable *)

IsPrefix(a, b) == Len(a) <= Len(b) /\ SubSeq(b, 1, Len(a)) = a

\* C3: an observer that subscribed while the session was in the table has,
\* once the session is done, received exactly the log of the session; so
\* any two such observers have received the same sequence.
C3_ObserverReceivesFullLog ==
    \A c \in ClientIds :
        (cl[c].state \in {"attached", "ended"} /\ sess[cl[c].session].done)
            => cl[c].received = Log(cl[c].session)

\* The terminal event of a log is single and last, and a done session has one.
TerminalLast(s) ==
    /\ Cardinality(TerminalIndexes(s)) <= 1
    /\ TerminalIndexes(s) \subseteq {Len(Log(s))}
    /\ sess[s].done => TerminalIndexes(s) # {}
    /\ sess[s].purged => sess[s].done

\* C5: a session goes open -> done -> purged; its log only grows by appending,
\* holds at most one terminal event (result or error), which is its last
\* event and is there when the session is marked done, and nothing is
\* appended once the session is marked done.
C5_SessionLifecycle ==
    /\ [](\A s \in SessionIds : TerminalLast(s))
    /\ [][\A s \in SessionIds :
             /\ IsPrefix(Log(s), sess'[s].logs)
             /\ sess[s].done => (sess'[s].done /\ sess'[s].logs = Log(s))
             /\ sess[s].purged => sess'[s].purged]_vars

\* C6: every observer channel attached to a session that is marked done is
\* eventually closed.
C6_ChannelsCloseAfterDone ==
    \A c \in ClientIds :
        (cl[c].state = "attached" /\ sess[cl[c].session].done)
            ~> (cl[c].state \in {"ended", "closed"})

\* C7: every session in the table is eventually marked done, with its terminal
\* event in the log; a done session is eventually removed from the table; an
\* entry is removed only when it is done and SESSION_CLEANUP_DELAY has passed
\* since; so every entry of the table is in flight or done and waiting for
\* its timer.
C7_SessionsDoneThenPurged ==
    /\ \A s \in SessionIds : sess[s].inTable ~> sess[s].done
    /\ \A s \in SessionIds : sess[s].done ~> (sess[s].purged /\ ~sess[s].inTable)
    /\ [](\A s \in SessionIds :
            /\ sess[s].done => TerminalIndexes(s) # {}
            /\ sess[s].purged => sess[s].done
            /\ sess[s].inTable =>
                  \/ ~sess[s].done /\ sess[s].pc \notin {"none", "end"}
                  \/ sess[s].done /\ sess[s].timer >= 0)
    /\ [][\A s \in SessionIds :
             (sess[s].inTable /\ ~sess'[s].inTable) =>
                 (sess[s].done /\ sess[s].age >= SESSION_CLEANUP_DELAY)]_vars

\* A session that ended with an error was removed from the table while another,
\* done with its result, waits in the table for its timer.
C7_Witness ==
    /\ \E s \in SessionIds : sess[s].purged /\ HasError(s)
    /\ \E s \in SessionIds : sess[s].inTable /\ sess[s].done /\ ResultPublished(s)

-----------------------------------------------------------------------------
(* Properties of cleanupOldFiles, checked under SpecSweep *)

\* A session created and not yet marked done.
InFlight(s) == sess[s].inTable /\ ~sess[s].done

\* The step is a sweep.
SweepStep == sweep' # sweep /\ sweep'.since = 0

\* C12: no sweep deletes the directory, a file of the directory or an upload
\* of a session that is in flight, however long its conversion runs.
C12_SweeperSparesInFlight ==
    [][SweepStep =>
         \A s \in SessionIds :
             InFlight(s) => /\ sess'[s].dir = sess[s].dir
                            /\ sess'[s].files = sess[s].files
                            /\ sess'[s].uploads = sess[s].uploads]_vars

\* C13: a sweep deletes every entry of the output and upload directories
\* last modified more than ONE_HOUR_MS ago and leaves every other entry as it
\* is; the first sweep runs before any request is served and the time
\* between sweeps is the interval (up to one step of time), so right after a
\* sweep no entry is older than one hour, whatever the state of its session.
C13_SweepDeletesOldEntries ==
    /\ [][SweepStep =>
             \A s \in SessionIds :
                 /\ sess[s].dirAge > ONE_HOUR_MS => (~sess'[s].dir /\ sess'[s].files = {})
                 /\ sess[s].dirAge <= ONE_HOUR_MS =>
                       /\ sess'[s].dir = sess[s].dir
                       /\ sess'[s].files = sess[s].files
                       /\ sess'[s].dirAge = sess[s].dirAge
                 /\ sess[s].upAge > ONE_HOUR_MS => sess'[s].uploads = {}
                 /\ sess[s].upAge <= ONE_HOUR_MS =>
                       /\ sess'[s].uploads = sess[s].uploads
                       /\ sess'[s].upAge = sess[s].upAge]_vars
    /\ [](/\ ~sweep.started => \A s \in SessionIds : sess[s].pc = "none"
          /\ sweep.since < SWEEP_INTERVAL_MS + QuantumMs
          /\ (sweep.started /\ sweep.since = 0) =>
                \A s \in SessionIds :
                    sess[s].dirAge <= ONE_HOUR_MS /\ sess[s].upAge <= ONE_HOUR_MS)

\* A sweep removed the directory and the uploads of a session in flight,
\* after it had left an entry modified exactly one hour before.
C13_Witness ==
    /\ sweep.started /\ sweep.since = 0
    /\ \E s \in SessionIds :
          /\ InFlight(s) /\ ~sess[s].dir /\ sess[s].uploads = {} /\ sess[s].dlLog = <<>>
    /\ \E s \in SessionIds : ~sess[s].inTable /\ sess[s].pc = "none" /\ ~sess[s].dir

-----------------------------------------------------------------------------
(* Properties of /api/download, checked under SpecDownload and SpecLookup *)

FinalKinds == {"pdf", "parte"}

\* C14: a bundle holds final output files only, and every final output file
\* the converted directory holds when the retrieval is served, also while
\* the conversion is in flight.
C14_BundleHoldsFinalOutputs ==
    /\ [](\A s \in SessionIds : \A f \in sess[s].bundle : f[3] \in FinalKinds)
    /\ [][\A s \in SessionIds :
             (sess[s].dl = "idle" /\ sess'[s].dl = "streaming") =>
                 sess'[s].bundle = {f \in sess[s].files : f[1] = "converted"}]_vars

\* The observers of the session s.
ObserversOf(s) == {c \in ClientIds : cl[c].state # "none" /\ cl[c].session = s}

\* C15: a subscription to a session that is not in the table (never created,
\* or purged) and a retrieval from a session whose converted directory is
\* missing or empty answer not-found and change nothing (the outcome apart);
\* a session that never existed stays without entry, observer and directory;
\* after a completed retrieval the directory is gone and every later
\* retrieval answers not-found.
C15_UnknownSessionNotFound ==
    /\ [][\A c \in ClientIds :
             (cl[c].state = "none" /\ cl'[c].state # "none") =>
                 IF sess[cl'[c].session].inTable
                 THEN cl'[c].state # "notfound"
                 ELSE cl'[c].state = "notfound" /\ sess' = sess]_vars
    /\ [][\A s \in SessionIds :
             (sess[s].dl = "idle" /\ Len(sess'[s].dlLog) > Len(sess[s].dlLog)) =>
                 /\ ~sess[s].dir \/ {f \in DiskFiles(sess[s]) : f[1] = "converted"} = {}
                 /\ sess' = [sess EXCEPT ![s].dlLog = Append(@, "notfound")]
                 /\ cl' = cl]_vars
    /\ [][\A s \in SessionIds :
             (sess[s].dl = "idle" /\ sess'[s].dl = "streaming") =>
                 (sess[s].dir /\ sess'[s].bundle # {})]_vars
    /\ [](\A s \in SessionIds :
            /\ req[s] = NoRequest =>
                  /\ sess[s] = [NoSession EXCEPT !.dlLog = sess[s].dlLog]
                  /\ \A c \in ObserversOf(s) : cl[c].state = "notfound"
            /\ \A i \in DOMAIN sess[s].dlLog :
                  sess[s].dlLog[i] = "ok" =>
                      /\ ~sess[s].dir
                      /\ \A j \in DOMAIN sess[s].dlLog : j > i => sess[s].dlLog[j] = "notfound")

\* A second retrieval answered not-found after a completed one, an observer
\* of the purged session was answered not-found, and so was a retrieval from
\* a session that never existed.
C15_Witness ==
    /\ \E s \in SessionIds :
          /\ sess[s].dlLog = <<"ok", "notfound">>
          /\ sess[s].purged
          /\ \E c \in ObserversOf(s) : cl[c].state = "notfound"
    /\ \E s \in SessionIds : req[s] = NoRequest /\ sess[s].dlLog # <<>>

-----------------------------------------------------------------------------
(* The order of the files of a batch, checked under SpecBatch *)

\* The place of a log event in the milestones of its file: the milestone, the
\* part and the line of the part.
Milestone(ev) ==
    CASE ev[2] = "start" -> 1
      [] ev[2] = "converting" -> 2
      [] ev[2] = "chunk" -> 3
      [] ev[2] = "converted" -> 4
      [] ev[2] = "size" -> 5
      [] ev[2] \in {"oversize", "verify"} -> 6
      [] ev[2] \in {"split", "verdict"} -> 7
      [] OTHER -> 8

PartLine(ev) ==
    CASE ev[2] = "partStart" -> 1
      [] ev[2] = "partChunk" -> 2
      [] ev[2] \in {"warn", "partDone"} -> 3
      [] OTHER -> 0

Rank(ev) == <<ev[3], Milestone(ev), ev[4], PartLine(ev)>>

\* Lexicographic order of ranks.
RankLeq(a, b) ==
    \/ a = b
    \/ \E i \in 1..4 : a[i] < b[i] /\ \A j \in 1..(i - 1) : a[j] = b[j]

\* The events of the log that belong to a file.
FileEvents(s) == {i \in DOMAIN Log(s) : Log(s)[i][1] = "log" /\ Log(s)[i][3] > 0}

\* C16: in a session log the events of file i precede those of file i+1, the
\* events of a file follow its milestones (start, converting, chunk progress,
\* converted, size, then either the split with the lines of each part in
\* turn or the verification and its verdict); and an engine process runs for
\* file i only when the results of all files before it were appended.
C16_FilesInSubmissionOrder ==
    \A s \in SessionIds :
        /\ \A a, b \in FileEvents(s) : a < b => RankLeq(Rank(Log(s)[a]), Rank(Log(s)[b]))
        /\ \A a, b \in FileEvents(s) :
              (Log(s)[a][2] = "split" /\ Log(s)[b][2] = "verify") => Log(s)[a][3] # Log(s)[b][3]
        /\ sess[s].pc \in {"conv", "ranges", "extract", "partconv"} =>
              /\ Len(sess[s].results) = sess[s].fi - 1
              /\ \A k \in DOMAIN sess[s].results : sess[s].results[k].file = k
              /\ sess[s].stray.run = 0
        /\ sess[s].conv.phase # "none" => sess[s].pc \in {"conv", "partconv"}
        /\ sess[s].stray.run > 0 => sess[s].pc = "end"
        /\ \A a \in FileEvents(s) : Log(s)[a][3] <= Len(sess[s].results) + 1

\* A batch of three files, one of them split, ended with its result.
C16_Witness ==
    \E s \in SessionIds :
        /\ ResultPublished(s)
        /\ Len(sess[s].results) = 3
        /\ \E k \in DOMAIN sess[s].results : sess[s].results[k].wasSplit
        /\ \E k \in DOMAIN sess[s].results : ~sess[s].results[k].wasSplit

-----------------------------------------------------------------------------
(* Properties of execQpdf, checked under SpecQpdf *)

\* The text of stderr is one of the known warning texts.
Warns(text) == \E e \in Stderrs : e.text = text /\ e.warns

\* C17: execQpdf returns exactly when qpdf exits with status zero, or with
\* another status and a stderr holding 'operation succeeded with warnings' or
\* 'WARNING:', and then hands on the output of the engine; otherwise it
\* throws.  The gs call of convertToPdfA returns exactly on status zero.
C17_QpdfToleratesWarningsOnly ==
    qpdf.pc = "done" =>
        /\ qpdf.engine = "qpdf" =>
              /\ qpdf.result.returned <=> (qpdf.out.code = 0 \/ Warns(qpdf.out.stderr))
              /\ qpdf.result.returned =>
                    qpdf.result = Returned(qpdf.out.stdout, qpdf.out.stderr)
        /\ qpdf.engine = "gs" => (qpdf.result.returned <=> qpdf.out.code = 0)

\* execQpdf returned although qpdf exited with status 3.
C17_Witness ==
    /\ qpdf.pc = "done"
    /\ qpdf.engine = "qpdf"
    /\ qpdf.out.code = 3
    /\ qpdf.result.returned

-----------------------------------------------------------------------------
(* Properties of verifyPdfA, checked under SpecVerify *)

\* The file verifyPdfA was called on, when it could be read.
Content == verify.fs0[verify.path].content

\* A part marker begins at index i and its digits begin at index j.
PartMarkerAt(c, i, j) ==
    /\ i \in 1..Len(c) /\ j \in (i + 1)..Len(c)
    /\ c[i] \in {"pdfaid:part", "PDFAID:PART"}
    /\ \A k \in (i + 1)..(j - 1) : c[k] \in Separators
    /\ c[j] \in DigitTokens

HasPartMarker(c) == \E i, j \in 1..Len(c) : PartMarkerAt(c, i, j)

\* The digits of the first part marker: the longest run of digits from j.
PartDigits(c) ==
    LET i == CHOOSE a \in 1..Len(c) :
                 /\ \E j \in 1..Len(c) : PartMarkerAt(c, a, j)
                 /\ \A b \in 1..(a - 1) : ~\E j \in 1..Len(c) : PartMarkerAt(c, b, j)
        j == CHOOSE b \in 1..Len(c) : PartMarkerAt(c, i, b)
        e == CHOOSE b \in j..Len(c) :
                 /\ \A k \in j..b : c[k] \in DigitTokens
                 /\ b < Len(c) => c[b + 1] \notin DigitTokens
    IN  SubSeq(c, j, e)

\* A level marker begins at index i and its letters begin at index j.
LevelMarkerAt(c, i, j) ==
    /\ i \in 1..Len(c) /\ j \in (i + 1)..Len(c)
    /\ c[i] = "pdfaid:conformance"
    /\ \A k \in (i + 1)..(j - 1) : c[k] \in Separators
    /\ c[j] \in LetterTokens \cup Keys

HasLevelMarker(c) == \E i, j \in 1..Len(c) : LevelMarkerAt(c, i, j)

IsLowerCase(x) == x \in {"b", "pdfaid"}

\* C18: verifyPdfA reports valid exactly when the content holds a part
\* marker, in either case; the label is then 'PDF/A-', the digits of the first
\* part marker and the level in lower case, which is 'b' when there is no level
\* marker.  Otherwise it reports invalid with a null label.
C18_ValidIffPartMarker ==
    (verify.pc = "done" /\ ~ReadThrows(verify.fs0, verify.path)) =>
        LET label == verify.result.conformance
            n == Len(PartDigits(Content))
        IN  /\ verify.result.valid <=> HasPartMarker(Content)
            /\ verify.result.valid =>
                  /\ label # Null
                  /\ Len(label) > 1 + n
                  /\ label[1] = "PDF/A-"
                  /\ SubSeq(label, 2, 1 + n) = PartDigits(Content)
                  /\ \A k \in (2 + n)..Len(label) : IsLowerCase(label[k])
                  /\ ~HasLevelMarker(Content) => SubSeq(label, 2 + n, Len(label)) = <<"b">>
            /\ ~verify.result.valid => label = Null

\* An upper-case part marker with two digits and a level marker with a
\* separator: the label is PDF/A-11b.
C18_Witness ==
    /\ verify.pc = "done"
    /\ verify.path = "out"
    /\ verify.fs0["out"] = Readable(<<"PDFAID:PART", "1", "1", "pdfaid:conformance", "B">>)
    /\ verify.result = [threw |-> FALSE, valid |-> TRUE,
                        conformance |-> <<"PDF/A-", "1", "1", "b">>]

\* C19: verifyPdfA never throws and leaves the files as they were; on a file
\* that is missing or cannot be read it reports invalid with a null label.
C19_VerifyNeverThrows ==
    verify.pc = "done" =>
        /\ ~verify.result.threw
        /\ verify.fs = verify.fs0
        /\ ReadThrows(verify.fs0, verify.path) => verify.result = Invalid

\* verifyPdfA returned on a path with no file.
C19_Witness ==
    /\ verify.pc = "done"
    /\ verify.path = "gone"
    /\ verify.result = Invalid

-----------------------------------------------------------------------------
(* Minimality of the ranges, checked under SpecMonotone *)

\* The probe sizes are monotone non-decreasing in the end page.
MonotoneProbes ==
    \A p \in DOMAIN rProbe :
        p[2] < rTotalPages => rProbe[p] <= rProbe[<<p[1], p[2] + 1>>]

\* C20: when probe sizes are monotone in the end page, every range returned
\* by findPageRangesForSize except the last is maximal: the extraction of
\* start..end+1 exceeds the ceiling.
C20_RangesAreMaximal ==
    (rPc = "returned" /\ MonotoneProbes) =>
        \A k \in 1..(Len(rRanges) - 1) :
            extractSize(rProbe, rRanges[k].start, rRanges[k].end + 1) > MAX_SIZE_BYTES

-----------------------------------------------------------------------------
(* Probe count of the partitioner, checked under SpecMonotone *)

\* ceil(log2(n)) for n >= 1.
RECURSIVE CeilLog2(_)
CeilLog2(n) == IF n <= 1 THEN 0 ELSE 1 + CeilLog2((n + 1) \div 2)

\* C21: the probe extractions findPageRangesForSize spends on one emitted
\* range are at most 2 + ceil(log2(P)) on a document of P pages.
C21_LogarithmicProbes ==
    \A k \in 1..Len(rProbeLog) : rProbeLog[k] <= 2 + CeilLog2(rTotalPages)

-----------------------------------------------------------------------------
(* The page-count guard of the partitioner, checked under SpecRanges *)

\* C22: findPageRangesForSize never returns a list of ranges for a document
\* whose page count is zero.
C22_ZeroPagesNeverReturns == rTotalPages = 0 => rPc # "returned"

-----------------------------------------------------------------------------
(* Engine processes of the server, checked under FairTable *)

RECURSIVE EnginesOfSessions(_)
EnginesOfSessions(n) ==
    IF n = 0 THEN 0 ELSE EnginesRunning(sess[n]) + EnginesOfSessions(n - 1)

\* C23: the engine processes running at one moment, over all the requests in
\* flight, are at most NUM_WORKERS.
C23_EnginesWithinWorkerCount == EnginesOfSessions(NumSessions) <= NUM_WORKERS

-----------------------------------------------------------------------------
(* Engine processes of one call, checked under SpecParallel *)

\* C24: once convertToPdfAParallel has returned or thrown, none of the engine
\* processes it started is still running.
C24_NoProcessOutlivesCall ==
    pPc \in {"returned", "threw"} => (RunningExtractions = {} /\ RunningConversions = {})

-----------------------------------------------------------------------------
(* The uploaded originals, checked under SpecBatch *)

\* The uploads a session still has to read: the file in work up to its last
\* extraction of a part, and every file after it.
UploadsNeeded(s) ==
    IF s.pc \in {"conv", "ranges", "extract"} \/ (s.pc = "partconv" /\ s.part < Len(s.ranges))
    THEN s.fi..Len(s.batch)
    ELSE IF s.pc = "partconv" THEN (s.fi + 1)..Len(s.batch) ELSE {}

\* C25: the pipeline deletes no uploaded original that a later step reads,
\* never brings an upload back, and no upload of the batch is left once the
\* session is marked done.
C25_OriginalsKeptThenDeleted ==
    [][\A s \in SessionIds :
          /\ UploadsNeeded(sess'[s]) \subseteq sess'[s].uploads
          /\ sess'[s].done => sess'[s].uploads = {}
          /\ sess[s].pc # "none" => sess'[s].uploads \subseteq sess[s].uploads]_vars

\* A batch of several files, one of them split, ended with its result.
C25_Witness ==
    \E s \in SessionIds :
        /\ sess[s].done /\ sess[s].failed = 0
        /\ Len(sess[s].batch) > 1
        /\ Len(sess[s].results) = Len(sess[s].batch)
        /\ \E k \in DOMAIN sess[s].results : sess[s].results[k].wasSplit
        /\ sess[s].uploads = {}

-----------------------------------------------------------------------------
(* Subscriptions to a session that is done, checked under Spec *)

\* Observer c subscribes to session s in this step.
Subscribes(c, s) ==
    cl[c].state = "none" /\ cl'[c].state # "none" /\ cl'[c].session = s

\* C26: a subscription to a session marked done receives the whole log,
\* is closed at once and is not added to the observers; the observers of a
\* session marked done never grow.
C26_DoneSessionTakesNoObserver ==
    [][\A s \in SessionIds :
          /\ \A c \in ClientIds :
                (Subscribes(c, s) /\ sess[s].inTable /\ sess[s].done) =>
                    /\ cl'[c] = [state |-> "ended", session |-> s, received |-> sess[s].logs]
                    /\ sess'[s].clients = sess[s].clients
          /\ sess[s].done => sess'[s].clients \subseteq sess[s].clients]_vars

\* An observer that subscribed after the result was published holds the log
\* with the result and is closed.
C26_Witness ==
    \E c \in ClientIds, s \in SessionIds :
        /\ cl[c] = [state |-> "ended", session |-> s, received |-> sess[s].logs]
        /\ sess[s].done
        /\ ResultEvent \in Range(sess[s].logs)
        /\ c \notin sess[s].clients

-----------------------------------------------------------------------------
(* Observers that disconnect, checked under Spec and FairSpec *)

\* The connection of observer c closes in this step.
Disconnects(c) == cl[c].state = "attached" /\ cl'[c].state = "closed"

\* C27: a disconnect takes the observer out of the observers of its session
\* and changes nothing else: the log, the done flag, the position of the
\* pipeline and its running conversions, and every other observer stay as they
\* are; the observer that left receives nothing any more.
C27_DisconnectOnlyDetaches ==
    [][\A c \in ClientIds :
          /\ Disconnects(c) =>
                /\ sess' = [sess EXCEPT ![cl[c].session].clients = @ \ {c}]
                /\ cl' = [cl EXCEPT ![c].state = "closed"]
          /\ cl[c].state = "closed" => cl'[c] = cl[c]]_vars

\* An observer left, and its session went on to its terminal event, which the
\* observer did not receive.
C27_Witness ==
    \E c \in ClientIds :
        /\ cl[c].state = "closed"
        /\ sess[cl[c].session].done
        /\ Len(cl[c].received) < Len(sess[cl[c].session].logs)
        /\ ~\E k \in DOMAIN cl[c].received : IsTerminal(cl[c].received[k])

\* C28: after the caller aborts, its observer being closed, the directory of
\* the session is eventually removed.
C28_AbortRemovesDirectory ==
    \A c \in ClientIds, s \in SessionIds :
        (cl[c].state = "closed" /\ cl[c].session = s) ~> ~sess[s].dir

-----------------------------------------------------------------------------
(* The answer of a conversion request, checked under Spec *)

\* The request of session s is accepted and answered in this step.
Answers(s) == sess[s].pc = "none" /\ sess'[s].pc # "none"

\* C29: when a request is answered its session is in the table and no step of
\* its conversion has ended: the first page count is awaited, and there is no
\* output and no result.  A subscription to a session that is open, or done
\* for less than the delay of cleanupSession, is never answered not-found.
C29_AnsweredBeforeConversion ==
    [][\A s \in SessionIds :
          /\ Answers(s) =>
                /\ sess'[s].inTable /\ ~sess'[s].done
                /\ sess'[s].pc = "conv" /\ sess'[s].fi = 1
                /\ sess'[s].conv = [phase |-> "count", n |-> 0, k |-> 0]
                /\ sess'[s].files = {} /\ sess'[s].results = <<>>
          /\ \A c \in ClientIds :
                (/\ Subscribes(c, s)
                 /\ sess[s].pc # "none"
                 /\ ~sess[s].done \/ sess[s].age < SESSION_CLEANUP_DELAY)
                    => cl'[c].state # "notfound"]_vars

\* An observer subscribed while the first page count was still awaited (and
\* left before the next event), and another once the session was done and its
\* delay had begun to run.
C29_Witness ==
    \E c, d \in ClientIds, s \in SessionIds :
        /\ cl[c].session = s /\ cl[c].state = "closed"
        /\ cl[c].received = <<LogEvent("start", 1, 0, 0, 0), LogEvent("converting", 1, 0, 0, 0)>>
        /\ cl[d].session = s /\ cl[d].state = "ended"
        /\ sess[s].done /\ sess[s].age > 0 /\ sess[s].age < SESSION_CLEANUP_DELAY

-----------------------------------------------------------------------------
(* The split decision and the result of a file, checked under SpecBatch *)

\* The sizes of the parts 1..n together.
RECURSIVE TotalSize(_, _)
TotalSize(parts, n) == IF n = 0 THEN 0 ELSE parts[n].size + TotalSize(parts, n - 1)

\* The answer of the verifier that the log of the session reports for file fi.
ReportedValid(s, fi) == LogEvent("verdict", fi, 0, 1, 0) \in Range(s.logs)

\* The result r of session s says what was done with its file.
ResultDescribesFile(s, r) ==
    LET doc == s.batch[r.file]
        pd == r.partsDetail
    IN  /\ r.wasSplit <=> doc.size > MAX_SIZE_BYTES
        /\ r.wasSplit =>
              /\ r.parts >= 1 /\ r.parts = Len(pd)
              /\ s.fi = r.file => r.parts = Len(s.ranges)
              /\ r.outputSize = TotalSize(pd, Len(pd))
              /\ r.verified <=> \A k \in DOMAIN pd : pd[k].verified
              /\ r.conformance # "null" => r.verified
              /\ s.dir => \A k \in DOMAIN pd : PartFinalPath(doc, k) \in s.files
        /\ ~r.wasSplit =>
              /\ pd = <<>>
              /\ r.outputSize = doc.size
              /\ r.verified <=> ReportedValid(s, r.file)
              /\ r.conformance # "null" <=> r.verified
              /\ s.dir => FinalPath(doc) \in s.files

\* C30: a file is split exactly when its full conversion is over the
\* ceiling.  A split result counts the ranges of the partitioner as its parts,
\* sums their sizes, is verified when every part is, and carries a label only
\* when verified; any other result has one output and the verifier's answer.
C30_SplitExactlyAboveCeiling ==
    \A s \in SessionIds :
        \A k \in DOMAIN sess[s].results : ResultDescribesFile(sess[s], sess[s].results[k])

\* A batch ended with a file at the ceiling left whole and a file one byte
\* over it split into two parts.
C30_Witness ==
    \E s \in SessionIds :
        /\ sess[s].done /\ sess[s].failed = 0
        /\ \E j, k \in DOMAIN sess[s].results :
              /\ ~sess[s].results[j].wasSplit
              /\ sess[s].batch[sess[s].results[j].file].size = MAX_SIZE_BYTES
              /\ sess[s].results[k].wasSplit /\ sess[s].results[k].parts = 2
              /\ sess[s].batch[sess[s].results[k].file].size = MAX_SIZE_BYTES + 1

-----------------------------------------------------------------------------
(* Properties of the chunk creation, checked under SpecChunks *)

\* C31: for every page count of at least MIN_PAGES_FOR_PARALLEL, the number of
\* chunks built by convertToPdfAParallel equals NUM_WORKERS.
C31_ChunkCountIsWorkerCount ==
    (pPc = "extract" /\ pTotalPages >= MIN_PAGES_FOR_PARALLEL) => Len(pChunks) = NUM_WORKERS

\* The least q with q * NUM_WORKERS >= n.
CeilPerWorker(n) == CHOOSE q \in 0..n : q * NUM_WORKERS >= n /\ (q - 1) * NUM_WORKERS < n

\* C36: for every page count of at least MIN_PAGES_FOR_PARALLEL the chunks are
\* contiguous, non-overlapping and ascending, the first starts at page 1 and
\* the last ends at totalPages, there are at most NUM_WORKERS of them, and each
\* holds between 1 and ceil(totalPages / NUM_WORKERS) pages, every chunk but
\* the last exactly that many.
C36_ChunksPartitionPages ==
    (pPc = "extract" /\ pTotalPages >= MIN_PAGES_FOR_PARALLEL) =>
        /\ Len(pChunks) >= 1
        /\ Len(pChunks) <= NUM_WORKERS
        /\ pChunks[1].start = 1
        /\ pChunks[Len(pChunks)].end = pTotalPages
        /\ \A k \in DOMAIN pChunks :
              /\ pChunks[k].end - pChunks[k].start + 1 >= 1
              /\ pChunks[k].end - pChunks[k].start + 1 <= CeilPerWorker(pTotalPages)
              /\ k < Len(pChunks) =>
                    pChunks[k].end - pChunks[k].start + 1 = CeilPerWorker(pTotalPages)
              /\ k > 1 => pChunks[k].start = pChunks[k - 1].end + 1

\* Chunks were built for a document whose last chunk is shorter than the
\* others and whose chunks are fewer than the workers.
C36_Witness ==
    /\ pPc = "extract"
    /\ pTotalPages = MIN_PAGES_FOR_PARALLEL + 1
    /\ Len(pChunks) < NUM_WORKERS
    /\ pChunks[Len(pChunks)].end - pChunks[Len(pChunks)].start + 1
          < CeilPerWorker(pTotalPages)

\* C38: for every page count of at least MIN_PAGES_FOR_PARALLEL at least two
\* chunks are built, so that the end of the chunk conversions never takes the
\* single-chunk rename branch and always starts the merge.
C38_AlwaysSeveralChunks ==
    (pPc = "extract" /\ pTotalPages >= MIN_PAGES_FOR_PARALLEL) =>
        /\ Len(pChunks) >= 2
        /\ StartMerge(pFiles, pChunks).pc = "merge"
        /\ OutputFile \notin StartMerge(pFiles, pChunks).files

\* Chunks were built for the smallest document that takes the parallel path.
C38_Witness ==
    /\ pPc = "extract"
    /\ pTotalPages = MIN_PAGES_FOR_PARALLEL
    /\ Len(pChunks) >= 2

-----------------------------------------------------------------------------
(* Progress of the parallel call, checked under SpecParallel *)

\* C37: onProgress is called exactly once per converted chunk, with the counts
\* 1, 2, ... strictly increasing and always the same total, the number of
\* chunks, whatever the order in which the conversions end; a run that reaches
\* the merge has reported exactly 1..N; and no conversion of any chunk is
\* started before the extraction of every chunk has completed.
C37_ProgressCountsChunks ==
    /\ \A k \in DOMAIN pProgress : pProgress[k] = <<k, Len(pChunks)>>
    /\ Len(pProgress) = Cardinality({i \in DOMAIN pConvert : pConvert[i] = "ok"})
    /\ (Len(pChunks) > 1 /\ pPc \in {"merge", "reconvert", "returned"}) =>
          Len(pProgress) = Len(pChunks)
    /\ pConvert # <<>> =>
          /\ DOMAIN pExtract = DOMAIN pChunks
          /\ \A i \in DOMAIN pExtract : pExtract[i] = "ok"

\* A call on six chunks returned after a conversion had ended before that of a
\* chunk of lower pages.
C37_Witness ==
    /\ pPc = "returned"
    /\ pOutOfOrder
    /\ Len(pChunks) = 6
    /\ Len(pProgress) = 6

-----------------------------------------------------------------------------
(* Properties of the binary-search revision, checked under SpecBinary *)

\* End pages below the last page whose probe from start fits the ceiling.
FittingEnds(start) ==
    {e \in start..(rTotalPages - 1) : extractSize(rProbe, start, e) <= MAX_SIZE_BYTES}

\* C33: in the binary-search revision, with probe sizes monotone in the end
\* page, every emitted range start..e that is not the final full-remainder
\* range has e equal to the largest end page in start..totalPages-1 whose
\* probe fits the ceiling, or e = start when none fits.
C33_BinarySearchFindsLargestFit ==
    (rRev = "binary" /\ rTotalPages > 1 /\ MonotoneProbes) =>
        \A k \in DOMAIN rRanges :
            LET r == rRanges[k]
                fullRemainder == /\ k = Len(rRanges)
                                 /\ r.end = rTotalPages
                                 /\ extractSize(rProbe, r.start, rTotalPages) <= MAX_SIZE_BYTES
            IN  \/ fullRemainder
                \/ /\ FittingEnds(r.start) = {}
                   /\ r.end = r.start
                \/ /\ FittingEnds(r.start) # {}
                   /\ r.end \in FittingEnds(r.start)
                   /\ \A e \in FittingEnds(r.start) : e <= r.end

\* The binary search returned, for a long document, a first range of several
\* pages that stops short of the page before the last, then a single page
\* that fits no probe.
C33_Witness ==
    /\ rRev = "binary"
    /\ rPc = "returned"
    /\ rTotalPages = LongPages
    /\ Len(rRanges) >= 3
    /\ rRanges[1].end > rRanges[1].start
    /\ rRanges[1].end < rTotalPages - 1
    /\ rRanges[2].end = rRanges[2].start
    /\ FittingEnds(rRanges[2].start) = {}

-----------------------------------------------------------------------------
(* Properties of both revisions on every probe assignment, checked under
   FairRanges and SpecRanges *)

\* C34: findPageRangesForSize terminates when every probe returns: each outer
\* iteration emits one range and, unless it is the last, advances the current
\* page by at least one, so that a document of P >= 1 pages yields at most P
\* ranges, also when no page fits the ceiling.
C34_PartitionerTerminates ==
    /\ [][(rPc = "loop" /\ rRanges' # rRanges) =>
             /\ Len(rRanges') = Len(rRanges) + 1
             /\ rRanges'[Len(rRanges')].start = rCurrentPage
             /\ rRanges'[Len(rRanges')].end >= rCurrentPage
             /\ rPc' = "loop" => rCurrentPage' >= rCurrentPage + 1]_vars
    /\ [](rTotalPages >= 1 => Len(rRanges) <= rTotalPages)
    /\ <>(rPc = "returned")

\* A document of MaxPages pages none of whose probes fits was returned as
\* MaxPages ranges.
C34_Witness ==
    /\ rPc = "returned"
    /\ rTotalPages = MaxPages
    /\ Len(rRanges) = MaxPages
    /\ \A p \in DOMAIN rProbe : rProbe[p] > MAX_SIZE_BYTES

\* The sizes of the probes are those of a document: the extraction of several
\* pages is at least as large as that of each of its pages alone.
ProbesContainPages ==
    \A p \in DOMAIN rProbe : \A q \in p[1]..p[2] : rProbe[p] >= rProbe[<<q, q>>]

-----------------------------------------------------------------------------
(* Output files of a batch, checked under SpecBatch *)

\* The session ended with its result and its directory is still there.
EndedWithResult(s) == sess[s].done /\ sess[s].failed = 0 /\ sess[s].dir

\* The number of output files the results announce: the parts of a split
\* file, one for any other.
RECURSIVE OutputsAnnounced(_)
OutputsAnnounced(results) ==
    IF results = <<>>
    THEN 0
    ELSE (IF results[1].wasSplit THEN results[1].parts ELSE 1)
            + OutputsAnnounced(Tail(results))

ConvertedFiles(s) == {f \in sess[s].files : f[1] = "converted"}

\* C39: within one batch distinct source files produce distinct output files:
\* when the result is published, the converted directory holds as many files
\* as the results announce (the parts of a split file, one for any other), no
\* output having been overwritten, also when two uploads share a base name.
C39_DistinctOutputsPerSource ==
    \A s \in SessionIds :
        EndedWithResult(s) =>
            Cardinality(ConvertedFiles(s)) = OutputsAnnounced(sess[s].results)

\* The final outputs and the names file.
IsDeliverable(f) == (f[1] = "converted" /\ f[3] \in FinalKinds) \/ f = NamesPath

\* A call of convertToPdfAParallel that returned left its output and nothing
\* else: no chunk, converted chunk, merged intermediate or definition file
\* (checked under SpecParallel).
ReturnedCallLeavesOutput == pPc = "returned" => pFiles = {OutputFile}

\* C40: when a session has ended with its result and nothing was retrieved,
\* its directory holds the final outputs under converted/ and the names file
\* and nothing else: no full conversion, no extracted part, no chunk and no
\* merged intermediate remains.
C40_OnlyDeliverablesRemain ==
    \A s \in SessionIds :
        (EndedWithResult(s) /\ sess[s].dlLog = <<>>) =>
            /\ \A f \in DiskFiles(sess[s]) : IsDeliverable(f)
            /\ NamesPath \in sess[s].files
            /\ \A k \in DOMAIN sess[s].results :
                  LET r == sess[s].results[k]
                      doc == sess[s].batch[r.file]
                  IN  IF r.wasSplit
                      THEN \A i \in 1..r.parts : PartFinalPath(doc, i) \in sess[s].files
                      ELSE FinalPath(doc) \in sess[s].files

\* A session ended with its result after a document converted in chunks and
\* over the ceiling was split into parts.
C40_Witness ==
    \E s \in SessionIds :
        /\ EndedWithResult(s) /\ sess[s].dlLog = <<>>
        /\ sess[s].batch[1].pages >= MIN_PAGES_FOR_PARALLEL
        /\ sess[s].results[1].wasSplit
        /\ sess[s].results[1].parts >= 2

-----------------------------------------------------------------------------
(* The split branch of the splitToFitSize revision, checked under SpecLegacy *)

\* C32: in the pipeline that splits with splitToFitSize, a single-page
\* document whose conversion exceeds the ceiling yields exactly one part
\* holding that page, and the request still succeeds: unless an engine fails,
\* the result is returned and the session directory is kept.
C32_SinglePageOversizeSucceeds ==
    (/\ legacy.pc \in {"ok", "error"}
     /\ legacy.pages = 1
     /\ legacy.size > MAX_SIZE_BYTES
     /\ legacy.threw \notin {"gs", "qpdf"}) =>
        /\ legacy.pc = "ok"
        /\ legacy.status = 200
        /\ legacy.dir
        /\ legacy.wasSplit /\ legacy.parts = 1
        /\ {f \in legacy.files : f[1] = "converted"} = {LegacyPartPath(1)}

====
